---- MODULE Spec2Model ----
(***************************************************************************)
(* Model of the codex conversation engine:                                 *)
(*   - core/src/conversation_manager.rs: ConversationManager (the map of   *)
(*     conversations behind a readers-writer lock, new / fork / get /      *)
(*     remove) and truncate_after_dropping_last_messages;                  *)
(*   - the session turn loop that produces the events of protocol.rs.      *)
(*   - protocol/src/protocol.rs: WritableRoot::is_path_writable and        *)
(*     SandboxPolicy::get_writable_roots_with_cwd.                         *)
(* Six specifications share the module: Spec (the manager under            *)
(* concurrent callers), SpecTrunc (the truncation function over bounded    *)
(* inputs), SpecSession (one session's turn loop), SpecWritable            *)
(* (is_path_writable over bounded inputs), SpecRoots (the derivation of    *)
(* the writable roots over bounded policies and environments) and          *)
(* SpecPolicy (one tool call through the policy layer).                    *)
(***************************************************************************)
EXTENDS Integers, Sequences, FiniteSets, TLC

VARIABLES
    \* ---- ConversationManager (Spec) ----
    conversations,  \* HashMap<Uuid, Arc<CodexConversation>>
    lock,           \* the RwLock around the map: [writer, readers]
    issued,         \* session ids Codex::spawn has handed out so far
    pc,             \* per caller: where it is inside a manager call
    call,           \* per caller: the call in progress and its arguments
    codex,          \* per caller: the Codex returned by Codex::spawn
    event,          \* per caller: the first event read in finalize_spawn
    ret,            \* per caller: what the last finished call returned
    returned,       \* history: id -> handle returned by new/fork, until
                    \* remove_conversation(id) is executed
    \* ---- truncate_after_dropping_last_messages (SpecTrunc) ----
    t_items,        \* the input list
    t_n,            \* the input n
    t_pc,           \* "off" | "input" | "truncated" | "again"
    t_out,          \* truncate(t_items, t_n)
    t_out0,         \* truncate(t_out, 0)
    \* ---- one session's turn loop (SpecSession) ----
    submissions,    \* the submission queue: Seq of [id, op]
    next_sub,       \* the id the caller gives its next submission
    submitted,      \* history: id -> op of every submission made
    current_turn,   \* the turn in flight: [id, phase, errors, progress,
                    \* kind, call_id]
    loop_running,   \* FALSE once the turn loop has exited (Shutdown)
    emitted,        \* per submission id: what the event queue carried
    pending_approvals, \* the ids under which an approval waiter is registered
    calls,          \* what the event queue carried about tool calls
    \* ---- WritableRoot::is_path_writable (SpecWritable) ----
    w_root,         \* the WritableRoot: [root, read_only_subpaths]
    w_path,         \* the path asked about
    w_pc,           \* "off" | "input" | "checked"
    w_result,       \* w_root.is_path_writable(w_path)
    \* ---- SandboxPolicy::get_writable_roots_with_cwd (SpecRoots) ----
    r_policy,       \* the SandboxPolicy
    r_cwd,          \* the cwd argument
    r_env,          \* the process environment: [unix, tmpdir, dirs]
    r_pc,           \* "off" | "input" | "derived"
    r_roots,        \* policy.get_writable_roots_with_cwd(cwd)
    r_probe,        \* per returned root: the probed paths writable through it
    \* ---- the policy layer and one tool call (SpecPolicy) ----
    d_ctx,          \* the TurnContext: [approval_policy, sandbox_policy]
    d_action,       \* the candidate action
    d_pc,           \* "off" | "call" | "waiting" | "running" | "escalated"
                    \* | "done" | "cancelled"
    d_verdict,      \* what the policy layer returned, and by which rule
    d_events,       \* the events emitted for the call, in order
    d_result,       \* the tool result handed back to the model
    \* TokenUsage
    u_pc,           \* "off" | "idle" | "returned"
    u_call,         \* the call: [fn, usage, context_window, baseline_used_tokens]
    u_ret,          \* what it came back with: [panic, value, div_by_zero]
    \* the wire encoding
    x_pc,           \* "off" | "value" | "encoded" | "decoded" | "asked"
    x_value,        \* the Submission or Event: [kind, v]
    x_json,         \* serde_json::to_string(x_value): [ok, json]
    x_back,         \* serde_json::from_str(x_json): [ok, value]
    x_success,      \* is_success() of a McpToolCallEnd event
    \* process start-up
    e_pc,           \* "off" | "start" | "alias" | "dispatched" | "main_fn"
                    \* | "exited"
    e_argv,         \* <<file name of argv[0], argv[1]>>
    e_files,        \* the two .env files: [home, cwd]
    e_env0,         \* the environment the process was started with
    e_env,          \* the environment of the process
    e_next,         \* the statement of arg0_dispatch_or_else to run next
    e_runtime,      \* the Tokio runtime (and its threads) exists
    e_tasks,        \* the tasks main_fn has spawned
    \* the TUI agent
    g_fn,           \* "none" | "spawn_agent" | "spawn_agent_from_existing"
    g_pc,           \* "off" | "start" | "running" | "failed" | "stopped"
    g_next,         \* the statement of the agent's task to run next
    g_stream,       \* the events the conversation has yet to yield
    g_yielded,      \* the events next_event() has returned, in order
    g_cur,          \* the event next_event() returned, not sent yet
    g_ui,           \* the events delivered to the UI, in order
    g_op_rx,        \* the Ops waiting in the channel behind codex_op_tx
    g_sent,         \* the Ops the UI has sent, in order
    g_forwarder,    \* the op forwarding task is spawned
    g_submitted,    \* the Ops submitted to the conversation, in order
    g_logged,       \* how many failed submits were logged
    \* App: the commit animation
    k_pc,           \* "off" | "run"
    k_running,      \* commit_anim_running
    k_thread,       \* per thread: "unborn" | "load" | "sleep" | "exited"
    k_handled,      \* Start/StopCommitAnimation events handled
    k_stopped,      \* the last of them was StopCommitAnimation
    k_after,        \* per thread: CommitTicks sent since that stop (up to 2)
    \* App: history insertion
    h_pc,           \* "off" | "run"
    h_overlay,      \* App.overlay
    h_transcript,   \* App.transcript_lines
    h_deferred,     \* App.deferred_history_lines
    h_terminal,     \* the lines given to tui.insert_history_lines
    h_last,         \* the event handled last, with the lines it carried
    h_arrived,      \* all transcript and display lines delivered so far
    h_count         \* events handled

mgrVars ==
    <<conversations, lock, issued, pc, call, codex, event, ret, returned>>
truncVars == <<t_items, t_n, t_pc, t_out, t_out0>>
sessVars ==
    <<submissions, next_sub, submitted, current_turn, loop_running, emitted,
      pending_approvals, calls>>
writableVars == <<w_root, w_path, w_pc, w_result>>
rootsVars == <<r_policy, r_cwd, r_env, r_pc, r_roots, r_probe>>
decideVars == <<d_ctx, d_action, d_pc, d_verdict, d_events, d_result>>
policyVars == <<writableVars, rootsVars, decideVars>>
usageVars == <<u_pc, u_call, u_ret>>
wireVars == <<x_pc, x_value, x_json, x_back, x_success>>
arg0Vars ==
    <<e_pc, e_argv, e_files, e_env0, e_env, e_next, e_runtime, e_tasks>>
agentVars ==
    <<g_fn, g_pc, g_next, g_stream, g_yielded, g_cur, g_ui, g_op_rx, g_sent,
      g_forwarder, g_submitted, g_logged>>
animVars == <<k_pc, k_running, k_thread, k_handled, k_stopped, k_after>>
historyVars ==
    <<h_pc, h_overlay, h_transcript, h_deferred, h_terminal, h_last,
      h_arrived, h_count>>
appVars == <<animVars, historyVars>>
auxVars == <<usageVars, wireVars, arg0Vars, agentVars, appVars>>
vars == <<mgrVars, truncVars, sessVars, policyVars, auxVars>>

\* ------------------------------------------------------------------------
\* Bounds
\* ------------------------------------------------------------------------
MaxIds == 2          \* how many uuids Codex::spawn can hand out
MaxHistLen == 2      \* length of a transcript given to fork_conversation
MaxDrop == 2         \* num_messages_to_drop given to fork_conversation
MaxLen == 3          \* length of an input list of SpecTrunc
MaxN == 3            \* n of SpecTrunc
MaxSubs == 3         \* submissions a caller makes to the session
MaxQueue == 2        \* submissions waiting in the queue
MaxProgress == 1     \* streaming / tool steps of one turn
MaxSubpaths == 2     \* read_only_subpaths of a WritableRoot of SpecWritable
MaxRoots == 1        \* configured writable_roots of a WorkspaceWrite policy
UBits == 3           \* width of the model's u64
MantissaBits == 2    \* width of the mantissa of the model's f32
MaxEntries == 1      \* items of a .env file
MaxTasks == 2        \* tasks spawned by main_fn
MaxStream == 2       \* events a conversation yields to the agent
MaxOps == 2          \* Ops the UI sends to the agent
MaxAnimEvents == 6   \* Start/StopCommitAnimation events the App handles
MaxAppEvents == 3    \* history and overlay events the App handles

Callers == {"a", "b"}
Ids == 1..MaxIds

\* ------------------------------------------------------------------------
\* ResponseItem and truncate_after_dropping_last_messages
\* ------------------------------------------------------------------------
\* A ResponseItem: a Message with a role, a Reasoning item or a FunctionCall.
\* content stands for the payload (text, arguments) that tells items apart.
Message(role, c) == [type |-> "message", role |-> role, content |-> c]
Reasoning(c) == [type |-> "reasoning", role |-> "", content |-> c]
FunctionCall(c) == [type |-> "function_call", role |-> "", content |-> c]

ItemOfKind(k, c) ==
    CASE k = "reasoning" -> Reasoning(c)
      [] k = "function_call" -> FunctionCall(c)
      [] OTHER -> Message(k, c)

\* (fault variant of IsUserMessage: assistant messages are counted too)
IsUserMessageCountsAssistant(item) ==
    item.type = "message" /\ item.role \in {"user", "assistant"}

\* `if let ResponseItem::Message { role, .. } = item && role == "user"`
IsUserMessage(item) == item.type = "message" /\ item.role = "user"

\* (fault variant of ScanBack: the user messages are counted from the front)
RECURSIVE ScanFrom(_, _, _, _)
ScanFrom(items, i, count, n) ==
    IF i > Len(items)
    THEN [count |-> count, cut_index |-> 0]
    ELSE IF IsUserMessage(items[i])
         THEN IF count + 1 = n
              THEN [count |-> count + 1, cut_index |-> i - 1]
              ELSE ScanFrom(items, i + 1, count + 1, n)
         ELSE ScanFrom(items, i + 1, count, n)
ScanForward(items, idx, count, n) == ScanFrom(items, 1, count, n)

\* The backwards loop `for (idx, item) in items.iter().enumerate().rev()`:
\* idx is the 0-based index about to be visited (-1 when the loop is over);
\* the result is the pair of locals [count, cut_index] after the loop.
RECURSIVE ScanBack(_, _, _, _)
ScanBack(items, idx, count, n) ==
    IF idx < 0
    THEN [count |-> count, cut_index |-> 0]
    ELSE IF IsUserMessage(items[idx + 1])
         THEN IF count + 1 = n
              THEN [count |-> count + 1, cut_index |-> idx]   \* break
              ELSE ScanBack(items, idx - 1, count + 1, n)
         ELSE ScanBack(items, idx - 1, count, n)

\* (fault variant of Take: the item at the cut index is kept)
TakeInclusive(items, k) == SubSeq(items, 1, k + 1)

\* items.into_iter().take(k).collect()
Take(items, k) == SubSeq(items, 1, IF k < Len(items) THEN k ELSE Len(items))

\* (fault variant of EarlyReturn: n == 0 is not tested)
EarlyReturnOnlyEmpty(items, n) == Len(items) = 0

\* The early return `if n == 0 || items.is_empty() { return items; }`
EarlyReturn(items, n) == n = 0 \/ Len(items) = 0

truncate_after_dropping_last_messages(items, n) ==
    IF EarlyReturn(items, n)
    THEN items
    ELSE LET r == ScanBack(items, Len(items) - 1, 0, n)
         IN  IF r.count < n THEN <<>> ELSE Take(items, r.cut_index)

\* ------------------------------------------------------------------------
\* Inputs
\* ------------------------------------------------------------------------
SeqsUpTo(S, m) == UNION {[1..k -> S] : k \in 0..m}
Tagged(kinds) == [i \in 1..Len(kinds) |-> ItemOfKind(kinds[i], i)]

ForkKinds == {"user", "assistant"}
ForkHistories == {Tagged(ks) : ks \in SeqsUpTo(ForkKinds, MaxHistLen)}

TruncKinds == {"user", "assistant", "system", "reasoning", "function_call"}
TruncInputs == {Tagged(ks) : ks \in SeqsUpTo(TruncKinds, MaxLen)}

\* ------------------------------------------------------------------------
\* ConversationManager: the map, its lock, results
\* ------------------------------------------------------------------------
\* `id == INITIAL_SUBMIT_ID`: the id of the event that acknowledges the
\* session's configuration.
INITIAL_SUBMIT_ID == ""

\* Event { id, msg }: the first events a freshly spawned session may produce.
EventIds == {INITIAL_SUBMIT_ID, "1"}
EventMsgs == {"session_configured", "task_started", "error"}
FirstEvents == [id : EventIds, msg : EventMsgs]

NoCall == [op |-> "none", id |-> 0, history |-> <<>>, n |-> 0,
           initial_history |-> <<>>]
NoCodex == [session_id |-> 0, initial_history |-> <<>>]
NoEvent == [id |-> "-", msg |-> "none"]
NoRet == [kind |-> "None"]

\* CodexResult values
OkNewConversation(id, conv, sc) ==
    [kind |-> "NewConversation", conversation_id |-> id,
     conversation |-> conv, session_configured |-> sc]
OkConversation(conv) == [kind |-> "Conversation", conversation |-> conv]
OkUnit == [kind |-> "Unit"]
Err(e, id) == [kind |-> "Err", err |-> e, id |-> id]

\* CodexConversation::new(codex): the conversation is the wrapped session.
\* The handle stored in the map and returned to callers is identified by the
\* session it wraps.
CodexConversation(cx) == [session_id |-> cx.session_id]

\* tokio::sync::RwLock: one writer or any number of readers. (The fair
\* queue of waiters is left out: it only removes acquisition orders.)
Unlocked == [writer |-> "none", readers |-> {}]
CanRead(l) == l.writer = "none"
CanWrite(l) == l.writer = "none" /\ l.readers = {}
AcquireRead(l, p) == [l EXCEPT !.readers = @ \cup {p}]
AcquireWrite(l, p) == [l EXCEPT !.writer = p]
ReleaseRead(l, p) == [l EXCEPT !.readers = @ \ {p}]
\* (fault variant of ReleaseWrite: the write guard outlives the statement)
ReleaseWriteLeaked(l, p) == l

\* the write guard is a temporary of the statement and is dropped at its end
ReleaseWrite(l, p) == [l EXCEPT !.writer = "none"]

\* HashMap::insert / remove / get
MapInsert(m, k, v) == [x \in DOMAIN m \cup {k} |-> IF x = k THEN v ELSE m[x]]
\* (fault variant of MapRemove: the map is cleared)
MapRemoveAll(m, k) == [x \in {} |-> k]

MapRemove(m, k) == [x \in DOMAIN m \ {k} |-> m[x]]
\* (fault variant of MapGet: a miss falls back to some entry)
MapGetAny(m, k) ==
    IF DOMAIN m # {}
    THEN OkConversation(m[CHOOSE x \in DOMAIN m : \A y \in DOMAIN m : x <= y])
    ELSE Err("ConversationNotFound", k)

MapGet(m, k) ==
    IF k \in DOMAIN m THEN OkConversation(m[k])
    ELSE Err("ConversationNotFound", k)

\* Codex::spawn hands out a session id no earlier session was given (a
\* freshly generated uuid). Uuids are opaque, so they are handed out in one
\* canonical order.
FreshIds(used) ==
    LET free == Ids \ used IN {x \in free : \A y \in free : x <= y}

\* (fault variant of IsSessionConfiguredFirst: the id is not compared)
FirstEventAccepted(ev) == ev.msg = "session_configured"

\* finalize_spawn's match on the first event
IsSessionConfiguredFirst(ev) ==
    ev.msg = "session_configured" /\ ev.id = INITIAL_SUBMIT_ID

\* (fault variant of ForkInitialHistory: the transcript is not truncated)
ForkInitialHistoryUntruncated(h, n) == <<h>>

\* fork_conversation: the initial history handed to Codex::spawn
ForkInitialHistory(h, n) == <<truncate_after_dropping_last_messages(h, n)>>

\* (fault variant of FinalizeSpawnEntry: the conversation is inserted
\* without awaiting the session's first event)
FinalizeSpawnInsertsFirst == "insert"

\* finalize_spawn begins by awaiting the session's first event
FinalizeSpawnEntry == "next_event"

\* (fault variant of MapOnErr: the failed session is left in the map)
MapOnErrInserted(m, id) == MapInsert(m, id, [session_id |-> id])

\* `?` / `return Err(..)` in spawn_conversation and finalize_spawn: the
\* error leaves before the map is locked
MapOnErr(m, id) == m

\* (fault variant of InsertKey: a fixed key)
InsertKeyFirst(cx) == 1

\* the key finalize_spawn inserts the conversation under
InsertKey(cx) == cx.session_id

\* ------------------------------------------------------------------------
\* ConversationManager: one action per step of each operation
\* ------------------------------------------------------------------------
Idle(p) == pc[p] = "idle"

Begin(p, c) ==
    /\ call' = [call EXCEPT ![p] = c]
    /\ codex' = [codex EXCEPT ![p] = NoCodex]
    /\ event' = [event EXCEPT ![p] = NoEvent]
    /\ ret' = [ret EXCEPT ![p] = NoRet]

\* the call returns r: its arguments and locals are gone
Return(p, r) ==
    /\ pc' = [pc EXCEPT ![p] = "idle"]
    /\ ret' = [ret EXCEPT ![p] = r]
    /\ call' = [call EXCEPT ![p] = [NoCall EXCEPT !.op = call[p].op]]
    /\ codex' = [codex EXCEPT ![p] = NoCodex]

\* new_conversation -> spawn_conversation: Codex::spawn(config, auth, None)
NewConversationStart(p) ==
    /\ Idle(p)
    /\ Begin(p, [NoCall EXCEPT !.op = "new_conversation"])
    /\ pc' = [pc EXCEPT ![p] = "spawn"]
    /\ UNCHANGED <<conversations, lock, issued, returned>>

\* fork_conversation: truncate, then Codex::spawn(config, auth, Some(..))
ForkConversationStart(p) ==
    /\ Idle(p)
    /\ \E h \in ForkHistories, n \in 0..MaxDrop :
         Begin(p, [op |-> "fork_conversation", id |-> 0, history |-> h,
                   n |-> n, initial_history |-> ForkInitialHistory(h, n)])
    /\ pc' = [pc EXCEPT ![p] = "spawn"]
    /\ UNCHANGED <<conversations, lock, issued, returned>>

\* Codex::spawn(..).await returns Ok(CodexSpawnOk { codex, session_id })
SpawnOk(p) ==
    /\ pc[p] = "spawn"
    /\ \E id \in FreshIds(issued) :
         /\ issued' = issued \cup {id}
         /\ codex' = [codex EXCEPT ![p] =
                [session_id |-> id,
                 initial_history |-> call[p].initial_history]]
    /\ call' = [call EXCEPT ![p] = [NoCall EXCEPT !.op = call[p].op]]
    /\ pc' = [pc EXCEPT ![p] = FinalizeSpawnEntry]
    /\ UNCHANGED <<conversations, lock, event, ret, returned>>

\* Codex::spawn(..).await? returns Err
SpawnErr(p) ==
    /\ pc[p] = "spawn"
    /\ Return(p, Err("Spawn", 0))
    /\ conversations' = MapOnErr(conversations, codex[p].session_id)
    /\ UNCHANGED <<lock, issued, event, returned>>

\* finalize_spawn: codex.next_event().await? returns Ok(event); the match
FirstEvent(p) ==
    /\ pc[p] = "next_event"
    /\ \E ev \in FirstEvents :
         /\ event' = [event EXCEPT ![p] = ev]
         /\ IF IsSessionConfiguredFirst(ev)
            THEN /\ pc' = [pc EXCEPT ![p] = "insert"]
                 /\ UNCHANGED <<ret, codex, call, conversations>>
            ELSE /\ Return(p, Err("SessionConfiguredNotFirstEvent", 0))
                 /\ conversations' =
                        MapOnErr(conversations, codex[p].session_id)
    /\ UNCHANGED <<lock, issued, returned>>

\* finalize_spawn: codex.next_event().await? returns Err
NextEventErr(p) ==
    /\ pc[p] = "next_event"
    /\ Return(p, Err("NextEvent", 0))
    /\ conversations' = MapOnErr(conversations, codex[p].session_id)
    /\ UNCHANGED <<lock, issued, event, returned>>

\* finalize_spawn: self.conversations.write().await
InsertAcquire(p) ==
    /\ pc[p] = "insert"
    /\ CanWrite(lock)
    /\ lock' = AcquireWrite(lock, p)
    /\ pc' = [pc EXCEPT ![p] = "insert_locked"]
    /\ UNCHANGED <<conversations, issued, call, codex, event, ret, returned>>

\* finalize_spawn: .insert(conversation_id, conversation.clone()); Ok(..)
Insert(p) ==
    /\ pc[p] = "insert_locked"
    /\ conversations' = MapInsert(conversations, InsertKey(codex[p]),
                                  CodexConversation(codex[p]))
    /\ lock' = ReleaseWrite(lock, p)
    /\ Return(p, OkNewConversation(codex[p].session_id,
                                   CodexConversation(codex[p]),
                                   event[p].msg))
    /\ returned' = (codex[p].session_id :> CodexConversation(codex[p]))
                      @@ returned
    /\ UNCHANGED <<issued, event>>

\* get_conversation: self.conversations.read().await
GetAcquire(p) ==
    /\ Idle(p)
    /\ CanRead(lock)
    /\ \E id \in Ids : Begin(p, [NoCall EXCEPT !.op = "get_conversation",
                                              !.id = id])
    /\ lock' = AcquireRead(lock, p)
    /\ pc' = [pc EXCEPT ![p] = "get_locked"]
    /\ UNCHANGED <<conversations, issued, returned>>

\* get_conversation: .get(&id).cloned().ok_or_else(..); the guard is dropped
GetLookup(p) ==
    /\ pc[p] = "get_locked"
    /\ Return(p, MapGet(conversations, call[p].id))
    /\ lock' = ReleaseRead(lock, p)
    /\ UNCHANGED <<conversations, issued, event, returned>>

\* remove_conversation: self.conversations.write().await
RemoveAcquire(p) ==
    /\ Idle(p)
    /\ CanWrite(lock)
    /\ \E id \in Ids : Begin(p, [NoCall EXCEPT !.op = "remove_conversation",
                                              !.id = id])
    /\ lock' = AcquireWrite(lock, p)
    /\ pc' = [pc EXCEPT ![p] = "remove_locked"]
    /\ UNCHANGED <<conversations, issued, returned>>

\* remove_conversation: .remove(&conversation_id); the guard is dropped
Remove(p) ==
    /\ pc[p] = "remove_locked"
    /\ conversations' = MapRemove(conversations, call[p].id)
    /\ lock' = ReleaseWrite(lock, p)
    /\ Return(p, OkUnit)
    /\ returned' = [x \in DOMAIN returned \ {call[p].id} |-> returned[x]]
    /\ UNCHANGED <<issued, event>>


\* ------------------------------------------------------------------------
\* Session: the turn loop and the turn executor (spec sections 4.3, 4.4, 5)
\* ------------------------------------------------------------------------
\* "max 5 attempts" of the model stream before the turn gives up
MAX_STREAM_ATTEMPTS == 5

SubIds == 1..MaxSubs
TurnOps == {"user_turn"}
ApprovalOps == {"exec_approval", "patch_approval"}
Ops == {"user_turn", "interrupt", "shutdown"} \cup ApprovalOps
\* ReviewDecision (ApprovedForSession acts on the waiting call as Approved)
Decisions == {"approved", "denied", "abort"}
TerminalMsgs == {"task_complete", "turn_aborted", "error"}

\* the tools whose calls are bracketed by *Begin / *End events
ToolKinds == {"exec_command", "patch_apply", "mcp_tool_call", "web_search"}
\* the tools whose calls go through the policy layer first
PolicyKinds == {"exec_command", "patch_apply"}
BeginMsg(kind) ==
    CASE kind = "exec_command" -> "exec_command_begin"
      [] kind = "patch_apply" -> "patch_apply_begin"
      [] kind = "mcp_tool_call" -> "mcp_tool_call_begin"
      [] kind = "web_search" -> "web_search_begin"
EndMsg(kind) ==
    CASE kind = "exec_command" -> "exec_command_end"
      [] kind = "patch_apply" -> "patch_apply_end"
      [] kind = "mcp_tool_call" -> "mcp_tool_call_end"
      [] kind = "web_search" -> "web_search_end"
RequestMsg(kind) ==
    IF kind = "exec_command"
    THEN "exec_approval_request"
    ELSE "apply_patch_approval_request"

\* A call_id: the turn and the number of the call inside the turn.
NoCallId == <<0, 0>>
NoTurn ==
    [id |-> 0, phase |-> "none", errors |-> 0, progress |-> 0,
     kind |-> "none", call_id |-> NoCallId]
NewTurn(id) ==
    [id |-> id, phase |-> "streaming", errors |-> 0, progress |-> 0,
     kind |-> "none", call_id |-> NoCallId]
Submission(id, op, target, decision) ==
    [id |-> id, op |-> op, target |-> target, decision |-> decision]

\* What the event queue has carried for one id: how many TaskStarted and
\* terminal events (counted up to 2), the last event, the reason of the last
\* TurnAborted, whether any event followed a terminal one (late) or came
\* before TaskStarted (early), whether TaskStarted came while another id
\* had started and not ended (overlap), how many StreamError events in a
\* row were the latest events (run) and how many of them stood right before
\* Error (run_at_error).
NoEvents ==
    [started |-> 0, terminals |-> 0, last |-> "none", reason |-> "none",
     late |-> FALSE, early |-> FALSE, overlap |-> FALSE, run |-> 0,
     run_at_error |-> 0]
UpTo2(n) == IF n > 2 THEN 2 ELSE n
UpTo(n, m) == IF n > m THEN m ELSE n
Observe(o, msg, reason, others) ==
    [started |-> UpTo2(o.started + (IF msg = "task_started" THEN 1 ELSE 0)),
     terminals |-> UpTo2(o.terminals
                         + (IF msg \in TerminalMsgs THEN 1 ELSE 0)),
     last |-> msg,
     reason |-> IF msg = "turn_aborted" THEN reason ELSE o.reason,
     late |-> o.late \/ o.terminals >= 1,
     early |-> o.early \/ (msg # "task_started" /\ o.started = 0),
     overlap |-> o.overlap \/ (msg = "task_started" /\ others # {}),
     run |-> IF msg = "stream_error"
             THEN UpTo(o.run + 1, MAX_STREAM_ATTEMPTS + 1)
             ELSE 0,
     run_at_error |-> IF msg = "error" THEN o.run ELSE o.run_at_error]

\* the ids that have started and not ended on the event queue q
Running(q) == {i \in DOMAIN q : q[i].started >= 1 /\ q[i].terminals = 0}

\* the event queue after Event { id, msg } is sent on it
Emit(q, id, msg, reason) ==
    [q EXCEPT ![id] = Observe(@, msg, reason, Running(q) \ {id})]

\* What the event queue has carried about tool calls: the calls with a
\* *Begin and no *End yet, and whether an *End came that matched no such
\* *Begin.
NoCalls == [open |-> {}, unpaired |-> FALSE]
Call(call_id, kind) == [call_id |-> call_id, kind |-> kind]
BeginCall(cs, c) == [cs EXCEPT !.open = @ \cup {c}]
EndCall(cs, c) ==
    IF c \in cs.open
    THEN [cs EXCEPT !.open = @ \ {c}]
    ELSE [cs EXCEPT !.unpaired = TRUE]

\* (fault variant of Release: the ended turn stays recorded as in flight)
ReleaseKept(t) == t

\* the turn is over: `current_turn` is released
Release(t) == NoTurn

\* a new turn replaces the one in flight: TurnAborted{Replaced} for it
AbortReplaced(q, t) ==
    IF t = NoTurn THEN q ELSE Emit(q, t.id, "turn_aborted", "replaced")

\* (fault variant of Started: the turn starts without TaskStarted)
StartedSilently(q, id) == q

\* TaskStarted for the new turn
Started(q, id) == Emit(q, id, "task_started", "none")

\* (fault variant of ReplaceAndStart: the new turn starts before the
\* displaced one is aborted)
StartThenReplace(q, t, id) == AbortReplaced(Started(q, id), t)

\* the events of a UserTurn: the displaced turn is aborted, then the new
\* one starts
ReplaceAndStart(q, t, id) == Started(AbortReplaced(q, t), id)

\* cancellation resolves the turn's waiters in pending_approvals with Abort
ResolveWaiters(pending, t) == pending \ {t.id}

SessInit ==
    /\ submissions = <<>>
    /\ next_sub = 1
    /\ submitted = [i \in {} |-> "none"]
    /\ current_turn = NoTurn
    /\ loop_running = TRUE
    /\ emitted = [i \in SubIds |-> NoEvents]
    /\ pending_approvals = {}
    /\ calls = NoCalls

\* what the caller may submit under id n: an ExecApproval / PatchApproval
\* names the id it answers (an id used before) and carries a decision
NextSubmissions(n) ==
    {Submission(n, op, 0, "none") : op \in Ops \ ApprovalOps}
    \cup {Submission(n, op, target, decision) :
              op \in ApprovalOps, target \in 1..(n - 1),
              decision \in Decisions}

\* submit(op): the caller appends Submission { id, op } to the queue
Submit ==
    /\ next_sub <= MaxSubs
    /\ Len(submissions) < MaxQueue
    /\ \E sub \in NextSubmissions(next_sub) :
         /\ submissions' = Append(submissions, sub)
         /\ submitted' = (next_sub :> sub.op) @@ submitted
    /\ next_sub' = next_sub + 1
    /\ UNCHANGED <<current_turn, loop_running, emitted, pending_approvals,
                   calls>>

\* turn loop, UserInput / UserTurn: the turn in flight (if any) is cancelled
\* and aborted as Replaced, then TaskStarted is emitted and the new turn is
\* recorded
HandleUserTurn ==
    /\ loop_running
    /\ submissions # <<>>
    /\ Head(submissions).op = "user_turn"
    /\ LET sub == Head(submissions)
       IN  /\ emitted' = ReplaceAndStart(emitted, current_turn, sub.id)
           /\ current_turn' = NewTurn(sub.id)
    /\ pending_approvals' = ResolveWaiters(pending_approvals, current_turn)
    /\ submissions' = Tail(submissions)
    /\ UNCHANGED <<next_sub, submitted, loop_running, calls>>

\* the queue without its i-th submission
Without(q, i) == SubSeq(q, 1, i - 1) \o SubSeq(q, i + 1, Len(q))

\* (fault variant of InterruptIdle: TurnAborted is sent although no turn is
\* in flight)
InterruptIdleAborts(q, sub) == Emit(q, sub.id, "turn_aborted", "interrupted")

\* the events of an Interrupt that finds no turn in flight: none
InterruptIdle(q, sub) == q

\* turn loop, Interrupt (handled at once, wherever it stands in the queue):
\* a turn in flight is cancelled and TurnAborted{Interrupted} is emitted;
\* with no turn in flight nothing happens
HandleInterrupt ==
    /\ loop_running
    /\ \E i \in 1..Len(submissions) :
         /\ submissions[i].op = "interrupt"
         /\ \A j \in 1..(i - 1) : submissions[j].op # "interrupt"
         /\ submissions' = Without(submissions, i)
         /\ IF current_turn # NoTurn
            THEN /\ emitted' = Emit(emitted, current_turn.id, "turn_aborted",
                                    "interrupted")
                 /\ current_turn' = Release(current_turn)
                 /\ pending_approvals' =
                        ResolveWaiters(pending_approvals, current_turn)
            ELSE /\ emitted' = InterruptIdle(emitted, submissions[i])
                 /\ UNCHANGED <<current_turn, pending_approvals>>
    /\ UNCHANGED <<next_sub, submitted, loop_running, calls>>

\* turn loop, Shutdown: pending work is drained (a turn in flight runs to
\* its end), then ShutdownComplete is emitted and the loop exits
HandleShutdown ==
    /\ loop_running
    /\ submissions # <<>>
    /\ Head(submissions).op = "shutdown"
    /\ current_turn = NoTurn
    /\ emitted' = Emit(emitted, Head(submissions).id, "shutdown_complete",
                       "none")
    /\ submissions' = Tail(submissions)
    /\ loop_running' = FALSE
    /\ UNCHANGED <<next_sub, submitted, current_turn, pending_approvals,
                   calls>>

\* look up the waiter by id in pending_approvals
HasWaiter(pending, id) == id \in pending

\* (fault variant of UnknownApproval: the approval is dropped silently)
UnknownApprovalDropped(q, sub) == q

\* an approval that finds no waiter: Error, under the approval's own id
UnknownApproval(q, sub) == Emit(q, sub.id, "error", "none")

\* turn loop, ExecApproval / PatchApproval: the waiter registered under the
\* id is handed the decision (Approved: the call runs, *Begin; Denied: a
\* "denied-by-user" tool result, streaming resumes; Abort: the whole turn is
\* cancelled); with no waiter under the id, Error is emitted
HandleApproval ==
    /\ loop_running
    /\ submissions # <<>>
    /\ Head(submissions).op \in ApprovalOps
    /\ LET sub == Head(submissions)
           t == current_turn
       IN  IF HasWaiter(pending_approvals, sub.target)
           THEN /\ pending_approvals' = pending_approvals \ {sub.target}
                /\ CASE sub.decision = "approved" ->
                          /\ emitted' = Emit(emitted, t.id, BeginMsg(t.kind),
                                             "none")
                          /\ calls' = BeginCall(calls,
                                                Call(t.call_id, t.kind))
                          /\ current_turn' = [t EXCEPT !.phase = "tool"]
                     [] sub.decision = "denied" ->
                          /\ current_turn' =
                                 [t EXCEPT !.phase = "streaming",
                                           !.kind = "none",
                                           !.call_id = NoCallId]
                          /\ UNCHANGED <<emitted, calls>>
                     [] sub.decision = "abort" ->
                          /\ emitted' = Emit(emitted, t.id, "turn_aborted",
                                             "interrupted")
                          /\ current_turn' = Release(t)
                          /\ UNCHANGED calls
           ELSE /\ emitted' = UnknownApproval(emitted, sub)
                /\ UNCHANGED <<current_turn, pending_approvals, calls>>
    /\ submissions' = Tail(submissions)
    /\ UNCHANGED <<next_sub, submitted, loop_running>>

Streaming == current_turn.phase = "streaming"

\* turn executor: a chunk of assistant prose arrives
StreamDelta ==
    /\ Streaming
    /\ current_turn.progress < MaxProgress
    /\ emitted' = Emit(emitted, current_turn.id, "agent_message_delta",
                       "none")
    /\ current_turn' = [current_turn EXCEPT !.errors = 0,
                                            !.progress = @ + 1]
    /\ UNCHANGED <<submissions, next_sub, submitted, loop_running,
                   pending_approvals, calls>>

\* turn executor: the model calls a tool. For a shell command or a patch the
\* policy layer may require approval: the request is emitted, a waiter is
\* registered under the turn's id and the call is suspended; otherwise the
\* call starts: *Begin
ToolBegin ==
    /\ Streaming
    /\ current_turn.progress < MaxProgress
    /\ \E kind \in ToolKinds, ask \in BOOLEAN :
         LET t == current_turn
             c == <<t.id, t.progress + 1>>
         IN  /\ ask => kind \in PolicyKinds
             /\ IF ask
                THEN /\ emitted' = Emit(emitted, t.id, RequestMsg(kind),
                                        "none")
                     /\ pending_approvals' = pending_approvals \cup {t.id}
                     /\ UNCHANGED calls
                ELSE /\ emitted' = Emit(emitted, t.id, BeginMsg(kind), "none")
                     /\ calls' = BeginCall(calls, Call(c, kind))
                     /\ UNCHANGED pending_approvals
             /\ current_turn' =
                    [t EXCEPT !.phase = IF ask THEN "approval" ELSE "tool",
                              !.errors = 0,
                              !.progress = @ + 1,
                              !.kind = kind,
                              !.call_id = c]
    /\ UNCHANGED <<submissions, next_sub, submitted, loop_running>>

\* turn executor: the running command writes to stdout / stderr
ToolOutput ==
    /\ current_turn.phase = "tool"
    /\ current_turn.kind = "exec_command"
    /\ emitted' = Emit(emitted, current_turn.id, "exec_command_output_delta",
                       "none")
    /\ UNCHANGED <<submissions, next_sub, submitted, current_turn,
                   loop_running, pending_approvals, calls>>

\* (fault variant of EndCallId: the *End event carries another call_id)
EndCallIdOfTurn(t) == <<t.id, 0>>

\* the call_id the *End event carries: that of the call in progress
EndCallId(t) == t.call_id

\* turn executor: the tool call finishes (its failure, if any, captured in
\* the event): *End, streaming resumes
ToolEnd ==
    /\ current_turn.phase = "tool"
    /\ LET t == current_turn
       IN  /\ emitted' = Emit(emitted, t.id, EndMsg(t.kind), "none")
           /\ calls' = EndCall(calls, Call(EndCallId(t), t.kind))
           /\ current_turn' = [t EXCEPT !.phase = "streaming",
                                        !.kind = "none",
                                        !.call_id = NoCallId]
    /\ UNCHANGED <<submissions, next_sub, submitted, loop_running,
                   pending_approvals>>

\* (fault variant of Exhausted: one attempt more than allowed)
ExhaustedLate(n) == n > MAX_STREAM_ATTEMPTS

\* the retries are used up with the n-th failure in a row
Exhausted(n) == n >= MAX_STREAM_ATTEMPTS

\* turn executor: the model stream fails: StreamError, and on the last
\* attempt Error, which ends the turn
StreamFail ==
    /\ Streaming
    /\ LET n == current_turn.errors + 1
           q == Emit(emitted, current_turn.id, "stream_error", "none")
       IN  IF ~Exhausted(n)
           THEN /\ emitted' = q
                /\ current_turn' = [current_turn EXCEPT !.errors = n]
           ELSE /\ emitted' = Emit(q, current_turn.id, "error", "none")
                /\ current_turn' = Release(current_turn)
    /\ UNCHANGED <<submissions, next_sub, submitted, loop_running,
                   pending_approvals, calls>>

\* turn executor: the model signals completion: TaskComplete
Complete ==
    /\ Streaming
    /\ emitted' = Emit(emitted, current_turn.id, "task_complete", "none")
    /\ current_turn' = Release(current_turn)
    /\ UNCHANGED <<submissions, next_sub, submitted, loop_running,
                   pending_approvals, calls>>

SessNext ==
    /\ UNCHANGED <<mgrVars, truncVars, policyVars, auxVars>>
    /\ \/ Submit
       \/ HandleUserTurn
       \/ HandleInterrupt
       \/ HandleShutdown
       \/ HandleApproval
       \/ StreamDelta
       \/ ToolBegin
       \/ ToolOutput
       \/ ToolEnd
       \/ StreamFail
       \/ Complete

\* ------------------------------------------------------------------------
\* Paths, WritableRoot and SandboxPolicy (protocol.rs)
\* ------------------------------------------------------------------------
\* A path is the sequence of its components below "/": <<>> is "/" and
\* <<"proj", ".git">> is "/proj/.git".
SlashTmp == <<"tmp">>
Paths ==
    {<<>>, <<"tmp">>, <<"var">>, <<"proj">>, <<"proj", "src">>,
     <<"proj", ".git">>, <<"proj", ".git", "hooks">>}

\* Path::join(name)
Join(path, name) == Append(path, name)

\* (fault variant of StartsWith: a path does not start with itself)
StartsWithStrict(path, base) ==
    /\ Len(base) < Len(path)
    /\ \A i \in 1..Len(base) : path[i] = base[i]

\* Path::starts_with(base): whole components are compared one after the
\* other until `base` is used up
RECURSIVE IterAfter(_, _, _)
IterAfter(path, base, i) ==
    IF i > Len(base) THEN TRUE
    ELSE IF i > Len(path) THEN FALSE
    ELSE IF path[i] # base[i] THEN FALSE
    ELSE IterAfter(path, base, i + 1)
StartsWith(path, base) == IterAfter(path, base, 1)

WritableRoot(root, subpaths) ==
    [root |-> root, read_only_subpaths |-> subpaths]

\* the `for subpath in &self.read_only_subpaths` loop of is_path_writable:
\* TRUE when it returns false from inside the loop
RECURSIVE UnderReadOnlySubpath(_, _, _)
UnderReadOnlySubpath(subpaths, path, i) ==
    IF i > Len(subpaths) THEN FALSE
    ELSE IF StartsWith(path, subpaths[i]) THEN TRUE
    ELSE UnderReadOnlySubpath(subpaths, path, i + 1)

\* WritableRoot::is_path_writable
is_path_writable(w, path) ==
    IF ~StartsWith(path, w.root) THEN FALSE
    ELSE IF UnderReadOnlySubpath(w.read_only_subpaths, path, 1) THEN FALSE
    ELSE TRUE

\* SandboxPolicy: the three modes; only WorkspaceWrite carries fields
DangerFullAccess ==
    [mode |-> "danger-full-access", writable_roots |-> <<>>,
     exclude_tmpdir_env_var |-> FALSE, exclude_slash_tmp |-> FALSE]
ReadOnly ==
    [mode |-> "read-only", writable_roots |-> <<>>,
     exclude_tmpdir_env_var |-> FALSE, exclude_slash_tmp |-> FALSE]
WorkspaceWrite(roots, no_tmpdir, no_slash_tmp) ==
    [mode |-> "workspace-write", writable_roots |-> roots,
     exclude_tmpdir_env_var |-> no_tmpdir, exclude_slash_tmp |-> no_slash_tmp]

\* The process environment the derivation reads: cfg!(unix), the TMPDIR
\* variable (unset, or set to a string that may be empty) and the paths
\* that are directories.
TmpdirUnset == [set |-> FALSE, empty |-> FALSE, path |-> <<>>]
TmpdirEmpty == [set |-> TRUE, empty |-> TRUE, path |-> <<>>]
TmpdirIs(path) == [set |-> TRUE, empty |-> FALSE, path |-> path]
Env(unix, tmpdir, dirs) == [unix |-> unix, tmpdir |-> tmpdir, dirs |-> dirs]

\* Path::is_dir
is_dir(env, path) == path \in env.dirs

\* (fault variant of PushCwd: cwd is left out)
PushCwdNever(roots, cwd) == roots

\* roots.push(cwd.to_path_buf())
PushCwd(roots, cwd) == Append(roots, cwd)

\* (fault variant of PushSlashTmp: /tmp is pushed whether or not it is a
\* directory)
PushSlashTmpUnchecked(roots, policy, env) ==
    IF env.unix /\ ~policy.exclude_slash_tmp
    THEN Append(roots, SlashTmp)
    ELSE roots

\* if cfg!(unix) && !exclude_slash_tmp { if slash_tmp.is_dir() { push } }
PushSlashTmp(roots, policy, env) ==
    IF env.unix /\ ~policy.exclude_slash_tmp
    THEN IF is_dir(env, SlashTmp) THEN Append(roots, SlashTmp) ELSE roots
    ELSE roots

\* (fault variant of PushTmpdir: an empty TMPDIR is pushed as well)
PushTmpdirEvenEmpty(roots, policy, env) ==
    IF ~policy.exclude_tmpdir_env_var /\ env.tmpdir.set
    THEN Append(roots, env.tmpdir.path)
    ELSE roots

\* if !exclude_tmpdir_env_var && let Some(tmpdir) = var_os("TMPDIR")
\*    && !tmpdir.is_empty() { push(PathBuf::from(tmpdir)) }
PushTmpdir(roots, policy, env) ==
    IF /\ ~policy.exclude_tmpdir_env_var
       /\ env.tmpdir.set
       /\ ~env.tmpdir.empty
    THEN Append(roots, env.tmpdir.path)
    ELSE roots

\* (fault variant of ProtectGit: .git is listed whether or not it is a
\* directory)
ProtectGitUnchecked(writable_root, env) ==
    WritableRoot(writable_root, <<Join(writable_root, ".git")>>)

\* the closure mapped over the roots: the top-level .git of a root stays
\* read-only when it is a directory
ProtectGit(writable_root, env) ==
    LET top_level_git == Join(writable_root, ".git")
    IN  WritableRoot(writable_root,
                     IF is_dir(env, top_level_git)
                     THEN <<top_level_git>>
                     ELSE <<>>)

\* SandboxPolicy::get_writable_roots_with_cwd
get_writable_roots_with_cwd(policy, cwd, env) ==
    IF policy.mode = "danger-full-access" THEN <<>>
    ELSE IF policy.mode = "read-only" THEN <<>>
    ELSE LET roots ==
                 PushTmpdir(
                     PushSlashTmp(PushCwd(policy.writable_roots, cwd),
                                  policy, env),
                     policy, env)
         IN  [i \in 1..Len(roots) |-> ProtectGit(roots[i], env)]

\* Inputs of SpecWritable and SpecRoots
WritableRoots ==
    {WritableRoot(r, s) : r \in Paths, s \in SeqsUpTo(Paths, MaxSubpaths)}
CwdChoices == {<<>>, <<"proj">>, <<"tmp">>}
TmpdirChoices ==
    {TmpdirUnset, TmpdirEmpty, TmpdirIs(<<"tmp">>), TmpdirIs(<<"var">>)}
DirChoices == SUBSET {<<"tmp">>, <<"proj", ".git">>, <<".git">>}
Envs ==
    {Env(u, t, d) : u \in BOOLEAN, t \in TmpdirChoices, d \in DirChoices}
Policies ==
    {DangerFullAccess, ReadOnly}
    \cup {WorkspaceWrite(r, a, b) :
              r \in SeqsUpTo(Paths, MaxRoots), a \in BOOLEAN, b \in BOOLEAN}

\* ------------------------------------------------------------------------
\* Policy layer and the approval of one tool call (spec section 4.2, 4.4)
\* ------------------------------------------------------------------------
ApprovalPolicies == {"untrusted", "on-failure", "on-request", "never"}
SandboxModes == {"danger-full-access", "read-only", "workspace-write"}
TurnContext(approval, sandbox) ==
    [approval_policy |-> approval, sandbox_policy |-> sandbox]
TurnContexts ==
    {TurnContext(a, s) : a \in ApprovalPolicies, s \in SandboxModes}

\* The candidate action: a shell command (known-safe or not) or a patch
\* (with or without a target outside the writable roots); the model may
\* mark the call as privileged.
ShellCommand(known_safe, privileged) ==
    [kind |-> "exec_command", known_safe |-> known_safe,
     privileged |-> privileged, outside |-> FALSE]
Patch(outside, privileged) ==
    [kind |-> "patch_apply", known_safe |-> FALSE,
     privileged |-> privileged, outside |-> outside]
\* under ReadOnly there are no writable roots: every target is outside
Actions(ctx) ==
    {ShellCommand(s, p) : s \in BOOLEAN, p \in BOOLEAN}
    \cup {Patch(o, p) :
              o \in IF ctx.sandbox_policy = "read-only"
                    THEN {TRUE}
                    ELSE BOOLEAN,
              p \in BOOLEAN}

AutoApprove(rule) == [verdict |-> "AutoApprove", rule |-> rule]
RequestApproval(rule) == [verdict |-> "RequestApproval", rule |-> rule]
NoVerdict == [verdict |-> "none", rule |-> 0]

\* rules 3 to 6: what the approval policy says
ByApprovalPolicy(action, ctx) ==
    CASE ctx.approval_policy = "untrusted" -> RequestApproval(3)
      [] ctx.approval_policy = "on-request" ->
             IF action.privileged
             THEN RequestApproval(4)
             ELSE AutoApprove(4)
      [] ctx.approval_policy = "on-failure" -> AutoApprove(5)
      [] ctx.approval_policy = "never" -> AutoApprove(6)

\* the policy layer: rules 1 to 7, evaluated in order
Policy(action, ctx) ==
    IF /\ ctx.sandbox_policy = "danger-full-access"
       /\ ctx.approval_policy # "untrusted"
    THEN AutoApprove(1)
    ELSE IF action.kind = "exec_command" /\ action.known_safe
    THEN AutoApprove(2)
    ELSE IF action.kind = "exec_command"
    THEN ByApprovalPolicy(action, ctx)
    ELSE IF action.outside
    THEN RequestApproval(7)
    ELSE ByApprovalPolicy(action, ctx)

\* rule 5: a call auto-approved under OnFailure that fails is re-emitted as
\* RequestApproval; under every other rule the failure is the tool result
Escalates(verdict, ok) ==
    ~ok /\ verdict = AutoApprove(5)

DecideIdle ==
    /\ d_ctx = TurnContext("never", "read-only")
    /\ d_action = ShellCommand(FALSE, FALSE)
    /\ d_pc = "off"
    /\ d_verdict = NoVerdict
    /\ d_events = <<>>
    /\ d_result = "none"

PolicyInit ==
    /\ d_ctx \in TurnContexts
    /\ d_action \in Actions(d_ctx)
    /\ d_pc = "call"
    /\ d_verdict = NoVerdict
    /\ d_events = <<>>
    /\ d_result = "none"

\* turn executor, tool call: the policy layer is consulted; the approval
\* request is emitted and the call suspended, or the call starts (*Begin)
Consult ==
    /\ d_pc = "call"
    /\ LET v == Policy(d_action, d_ctx)
       IN  /\ d_verdict' = v
           /\ IF v.verdict = "RequestApproval"
              THEN /\ d_events' = Append(d_events, RequestMsg(d_action.kind))
                   /\ d_pc' = "waiting"
              ELSE /\ d_events' = Append(d_events, BeginMsg(d_action.kind))
                   /\ d_pc' = "running"
    /\ UNCHANGED <<d_ctx, d_action, d_result>>

\* the user's decision reaches the suspended call
Answer ==
    /\ d_pc = "waiting"
    /\ \E decision \in Decisions :
         CASE decision = "approved" ->
                /\ d_events' = Append(d_events, BeginMsg(d_action.kind))
                /\ d_pc' = "running"
                /\ UNCHANGED d_result
           [] decision = "denied" ->
                /\ d_result' = "denied-by-user"
                /\ d_pc' = "done"
                /\ UNCHANGED d_events
           [] decision = "abort" ->
                /\ d_events' = Append(d_events, "turn_aborted")
                /\ d_pc' = "cancelled"
                /\ UNCHANGED d_result
    /\ UNCHANGED <<d_ctx, d_action, d_verdict>>

\* the call finishes (*End); its outcome is the tool result, unless a
\* failure is escalated to the user
Exit ==
    /\ d_pc = "running"
    /\ \E ok \in BOOLEAN :
         LET ended == Append(d_events, EndMsg(d_action.kind))
         IN  IF Escalates(d_verdict, ok)
             THEN /\ d_events' = Append(ended, RequestMsg(d_action.kind))
                  /\ d_pc' = "escalated"
                  /\ UNCHANGED d_result
             ELSE /\ d_events' = ended
                  /\ d_result' = IF ok THEN "success" ELSE "failure"
                  /\ d_pc' = "done"
    /\ UNCHANGED <<d_ctx, d_action, d_verdict>>

\* the user's decision on an escalated failure
AnswerEscalation ==
    /\ d_pc = "escalated"
    /\ \E decision \in Decisions :
         CASE decision = "approved" ->
                /\ d_result' = "retry-unsandboxed"
                /\ d_pc' = "done"
                /\ UNCHANGED d_events
           [] decision = "denied" ->
                /\ d_result' = "failure"
                /\ d_pc' = "done"
                /\ UNCHANGED d_events
           [] decision = "abort" ->
                /\ d_events' = Append(d_events, "turn_aborted")
                /\ d_pc' = "cancelled"
                /\ UNCHANGED d_result
    /\ UNCHANGED <<d_ctx, d_action, d_verdict>>

\* ------------------------------------------------------------------------
\* TokenUsage (protocol.rs)
\* ------------------------------------------------------------------------
\* u64 is modelled UBits wide and the mantissa of f32 MantissaBits wide, so
\* that the ends of the range and the rounding of `as f32` are in reach.
Pow2(n) == 2 ^ n
Modulus == Pow2(UBits)
U64Max == Modulus - 1
U64 == 0..U64Max

\* Option<T>
None == <<>>
Some(v) == <<v>>
OptionU64 == {None} \cup {Some(v) : v \in U64}
unwrap_or(opt, default) == IF opt = None THEN default ELSE opt[1]

TokenUsage(input, cached, output, reasoning, total) ==
    [input_tokens |-> input, cached_input_tokens |-> cached,
     output_tokens |-> output, reasoning_output_tokens |-> reasoning,
     total_tokens |-> total]

\* what a call comes back with: a value, or a panic ("attempt to add /
\* subtract with overflow"); div_by_zero records a division by 0.0
Returned(v) == [panic |-> FALSE, value |-> v, div_by_zero |-> FALSE]
Panicked == [panic |-> TRUE, value |-> 0, div_by_zero |-> FALSE]

\* u64::saturating_sub
saturating_sub(a, b) == IF a < b THEN 0 ELSE a - b

\* a + b on u64: on overflow the build decides, a panic with overflow checks
\* (debug) and the wrapped sum without them (release)
Add(a, b) ==
    IF a + b > U64Max
    THEN {Panicked, Returned((a + b) % Modulus)}
    ELSE {Returned(a + b)}

\* a - b on u64, likewise
Sub(a, b) ==
    IF a < b
    THEN {Panicked, Returned((a + Modulus - b) % Modulus)}
    ELSE {Returned(a - b)}

\* TokenUsage::cached_input
cached_input(usage) == unwrap_or(usage.cached_input_tokens, 0)

\* TokenUsage::non_cached_input
non_cached_input(usage) ==
    saturating_sub(usage.input_tokens, cached_input(usage))

\* TokenUsage::blended_total
blended_total(usage) == Add(non_cached_input(usage), usage.output_tokens)

\* TokenUsage::tokens_in_context_window
tokens_in_context_window(usage) ==
    saturating_sub(usage.total_tokens,
                   unwrap_or(usage.reasoning_output_tokens, 0))

\* the exponent of the highest set bit of n >= 1
RECURSIVE Log2(_)
Log2(n) == IF n <= 1 THEN 0 ELSE 1 + Log2(n \div 2)

\* n as f32: the nearest number with a MantissaBits-bit mantissa, a tie
\* going to the even mantissa
as_f32(n) ==
    IF n < Pow2(MantissaBits) THEN n
    ELSE LET step == Pow2(Log2(n) - MantissaBits + 1)
             below == (n \div step) * step
             rest == n - below
         IN  IF 2 * rest < step THEN below
             ELSE IF 2 * rest > step THEN below + step
             ELSE IF (below \div step) % 2 = 0 THEN below
             ELSE below + step

\* an f32 by its integral part, or NaN
F32(i) == [nan |-> FALSE, int |-> i]
NaN == [nan |-> TRUE, int |-> 0]

\* (remaining / effective_window) * 100.0: the two roundings move the
\* product by less than one, so its integral part is the exact one or a
\* neighbour; 0.0 / 0.0 is NaN and x / 0.0 is +inf
TimesHundred(remaining, effective_window) ==
    IF effective_window = 0
    THEN IF remaining = 0 THEN {NaN} ELSE {F32(100 * U64Max + 100)}
    ELSE IF remaining = 0 THEN {F32(0)}
    ELSE LET q == (100 * remaining) \div effective_window
         IN  {F32(q - 1), F32(q), F32(q + 1)}

\* f32::clamp: NaN stays NaN
clamp(x, lo, hi) ==
    IF x.nan THEN x
    ELSE IF x.int < lo THEN F32(lo)
    ELSE IF x.int > hi THEN F32(hi)
    ELSE x

\* `as u8`: NaN gives 0, the rest saturates
as_u8(x) ==
    IF x.nan THEN 0
    ELSE IF x.int < 0 THEN 0
    ELSE IF x.int > 255 THEN 255
    ELSE x.int

\* (fault variant of WindowExhausted: a window equal to the baseline goes on)
WindowExhaustedStrict(context_window, baseline_used_tokens) ==
    context_window < baseline_used_tokens

\* if context_window <= baseline_used_tokens { return 0; }
WindowExhausted(context_window, baseline_used_tokens) ==
    context_window <= baseline_used_tokens

\* TokenUsage::percent_of_context_window_remaining
percent_of_context_window_remaining(usage, context_window, baseline_used_tokens) ==
    IF WindowExhausted(context_window, baseline_used_tokens)
    THEN {Returned(0)}
    ELSE UNION {
           IF effective_window.panic THEN {Panicked}
           ELSE LET used ==
                        saturating_sub(tokens_in_context_window(usage),
                                       baseline_used_tokens)
                    remaining == saturating_sub(effective_window.value, used)
                IN  {[panic |-> FALSE,
                      value |-> as_u8(clamp(x, 0, 100)),
                      div_by_zero |-> effective_window.value = 0] :
                         x \in TimesHundred(as_f32(remaining),
                                            as_f32(effective_window.value))}
           : effective_window \in Sub(context_window, baseline_used_tokens)}

NoUsageCall ==
    [fn |-> "none", usage |-> TokenUsage(0, None, 0, None, 0),
     context_window |-> 0, baseline_used_tokens |-> 0]
UsageCall(fn, usage, context_window, baseline_used_tokens) ==
    [fn |-> fn, usage |-> usage, context_window |-> context_window,
     baseline_used_tokens |-> baseline_used_tokens]

UsageIdle ==
    /\ u_pc = "off"
    /\ u_call = NoUsageCall
    /\ u_ret = Returned(0)

UsageInit ==
    /\ u_pc = "idle"
    /\ u_call = NoUsageCall
    /\ u_ret = Returned(0)

\* usage.non_cached_input()
NonCachedInput ==
    /\ u_pc = "idle"
    /\ \E input \in U64, cached \in OptionU64 :
         LET usage == TokenUsage(input, cached, 0, None, 0)
         IN  /\ u_call' = UsageCall("non_cached_input", usage, 0, 0)
             /\ u_ret' = Returned(non_cached_input(usage))
    /\ u_pc' = "returned"

\* usage.blended_total()
BlendedTotal ==
    /\ u_pc = "idle"
    /\ \E input \in U64, cached \in OptionU64, output \in U64 :
         LET usage == TokenUsage(input, cached, output, None, 0)
         IN  /\ u_call' = UsageCall("blended_total", usage, 0, 0)
             /\ u_ret' \in blended_total(usage)
    /\ u_pc' = "returned"

\* usage.tokens_in_context_window()
TokensInContextWindow ==
    /\ u_pc = "idle"
    /\ \E total \in U64, reasoning \in OptionU64 :
         LET usage == TokenUsage(0, None, 0, reasoning, total)
         IN  /\ u_call' = UsageCall("tokens_in_context_window", usage, 0, 0)
             /\ u_ret' = Returned(tokens_in_context_window(usage))
    /\ u_pc' = "returned"

\* usage.percent_of_context_window_remaining(context_window, baseline)
PercentOfContextWindowRemaining ==
    /\ u_pc = "idle"
    /\ \E total \in U64, reasoning \in OptionU64,
          context_window \in U64, baseline_used_tokens \in U64 :
         LET usage == TokenUsage(0, None, 0, reasoning, total)
         IN  /\ u_call' = UsageCall("percent_of_context_window_remaining",
                                    usage, context_window,
                                    baseline_used_tokens)
             /\ u_ret' \in percent_of_context_window_remaining(
                               usage, context_window, baseline_used_tokens)
    /\ u_pc' = "returned"

\* ------------------------------------------------------------------------
\* The wire encoding of Submission and Event (protocol.rs, serde derive)
\* ------------------------------------------------------------------------
\* JSON values; JOpaque(v) is the JSON form of a value whose type is defined
\* outside these sources
JNull == [j |-> "null"]
JStr(s) == [j |-> "string", s |-> s]
JNum(n) == [j |-> "number", n |-> n]
JBool(b) == [j |-> "bool", b |-> b]
JArr(items) == [j |-> "array", items |-> items]
JObj(members) == [j |-> "object", members |-> members]
JOpaque(v) == [j |-> "opaque", v |-> v]

\* a field of a struct or of a struct variant: its name, the kind of its
\* type and its presence: "required", "default" (#[serde(default)]),
\* "default_skip_empty" (default, skip_serializing_if = "Vec::is_empty"),
\* "option" (Option<T>) or "option_skip" (Option<T> with
\* skip_serializing_if = "Option::is_none")
Field(name, kind, presence) ==
    [name |-> name, kind |-> kind, presence |-> presence]
\* a variant of an enum: its name, its #[serde(rename)] (<<>> without one)
\* and its fields
Variant(name, rename, fields) ==
    [name |-> name, rename |-> rename, fields |-> fields]

\* enum Op, in the order of the source
OpVariants == <<
    Variant(<<"I", "n", "t", "e", "r", "r", "u", "p", "t">>, <<>>,
            <<>>),
    Variant(<<"U", "s", "e", "r", "I", "n", "p", "u", "t">>, <<>>,
            <<Field("items", "opaque", "required")>>),
    Variant(<<"U", "s", "e", "r", "T", "u", "r", "n">>, <<>>,
            <<Field("items", "opaque", "required"),
              Field("cwd", "path", "required"),
              Field("approval_policy", "opaque", "required"),
              Field("sandbox_policy", "sandbox_policy", "required"),
              Field("model", "string", "required"),
              Field("effort", "opaque", "required"),
              Field("summary", "opaque", "required")>>),
    Variant(<<"O", "v", "e", "r", "r", "i", "d", "e", "T", "u", "r", "n", "C", "o", "n", "t", "e", "x", "t">>, <<>>,
            <<Field("cwd", "path", "option_skip"),
              Field("approval_policy", "opaque", "option_skip"),
              Field("sandbox_policy", "sandbox_policy", "option_skip"),
              Field("model", "string", "option_skip"),
              Field("effort", "opaque", "option_skip"),
              Field("summary", "opaque", "option_skip")>>),
    Variant(<<"E", "x", "e", "c", "A", "p", "p", "r", "o", "v", "a", "l">>, <<>>,
            <<Field("id", "string", "required"),
              Field("decision", "opaque", "required")>>),
    Variant(<<"P", "a", "t", "c", "h", "A", "p", "p", "r", "o", "v", "a", "l">>, <<>>,
            <<Field("id", "string", "required"),
              Field("decision", "opaque", "required")>>),
    Variant(<<"A", "d", "d", "T", "o", "H", "i", "s", "t", "o", "r", "y">>, <<>>,
            <<Field("text", "string", "required")>>),
    Variant(<<"G", "e", "t", "H", "i", "s", "t", "o", "r", "y", "E", "n", "t", "r", "y", "R", "e", "q", "u", "e", "s", "t">>, <<>>,
            <<Field("offset", "number", "required"),
              Field("log_id", "number", "required")>>),
    Variant(<<"G", "e", "t", "H", "i", "s", "t", "o", "r", "y">>, <<>>,
            <<>>),
    Variant(<<"L", "i", "s", "t", "M", "c", "p", "T", "o", "o", "l", "s">>, <<>>,
            <<>>),
    Variant(<<"L", "i", "s", "t", "C", "u", "s", "t", "o", "m", "P", "r", "o", "m", "p", "t", "s">>, <<>>,
            <<>>),
    Variant(<<"C", "o", "m", "p", "a", "c", "t">>, <<>>,
            <<>>),
    Variant(<<"S", "h", "u", "t", "d", "o", "w", "n">>, <<>>,
            <<>>)>>

\* enum EventMsg, in the order of the source (the struct of PlanUpdate,
\* UpdatePlanArgs, is defined outside these sources: no field is modelled)
EventMsgVariants == <<
    Variant(<<"E", "r", "r", "o", "r">>, <<>>,
            <<Field("message", "string", "required")>>),
    Variant(<<"T", "a", "s", "k", "S", "t", "a", "r", "t", "e", "d">>, <<>>,
            <<Field("model_context_window", "number", "option")>>),
    Variant(<<"T", "a", "s", "k", "C", "o", "m", "p", "l", "e", "t", "e">>, <<>>,
            <<Field("last_agent_message", "string", "option")>>),
    Variant(<<"T", "o", "k", "e", "n", "C", "o", "u", "n", "t">>, <<>>,
            <<Field("input_tokens", "number", "required"),
              Field("cached_input_tokens", "number", "option"),
              Field("output_tokens", "number", "required"),
              Field("reasoning_output_tokens", "number", "option"),
              Field("total_tokens", "number", "required")>>),
    Variant(<<"A", "g", "e", "n", "t", "M", "e", "s", "s", "a", "g", "e">>, <<>>,
            <<Field("message", "string", "required")>>),
    Variant(<<"A", "g", "e", "n", "t", "M", "e", "s", "s", "a", "g", "e", "D", "e", "l", "t", "a">>, <<>>,
            <<Field("delta", "string", "required")>>),
    Variant(<<"A", "g", "e", "n", "t", "R", "e", "a", "s", "o", "n", "i", "n", "g">>, <<>>,
            <<Field("text", "string", "required")>>),
    Variant(<<"A", "g", "e", "n", "t", "R", "e", "a", "s", "o", "n", "i", "n", "g", "D", "e", "l", "t", "a">>, <<>>,
            <<Field("delta", "string", "required")>>),
    Variant(<<"A", "g", "e", "n", "t", "R", "e", "a", "s", "o", "n", "i", "n", "g", "R", "a", "w", "C", "o", "n", "t", "e", "n", "t">>, <<>>,
            <<Field("text", "string", "required")>>),
    Variant(<<"A", "g", "e", "n", "t", "R", "e", "a", "s", "o", "n", "i", "n", "g", "R", "a", "w", "C", "o", "n", "t", "e", "n", "t", "D", "e", "l", "t", "a">>, <<>>,
            <<Field("delta", "string", "required")>>),
    Variant(<<"A", "g", "e", "n", "t", "R", "e", "a", "s", "o", "n", "i", "n", "g", "S", "e", "c", "t", "i", "o", "n", "B", "r", "e", "a", "k">>, <<>>,
            <<>>),
    Variant(<<"S", "e", "s", "s", "i", "o", "n", "C", "o", "n", "f", "i", "g", "u", "r", "e", "d">>, <<>>,
            <<Field("session_id", "string", "required"),
              Field("model", "string", "required"),
              Field("history_log_id", "number", "required"),
              Field("history_entry_count", "number", "required")>>),
    Variant(<<"M", "c", "p", "T", "o", "o", "l", "C", "a", "l", "l", "B", "e", "g", "i", "n">>, <<>>,
            <<Field("call_id", "string", "required"),
              Field("invocation", "mcp_invocation", "required")>>),
    Variant(<<"M", "c", "p", "T", "o", "o", "l", "C", "a", "l", "l", "E", "n", "d">>, <<>>,
            <<Field("call_id", "string", "required"),
              Field("invocation", "mcp_invocation", "required"),
              Field("duration", "opaque", "required"),
              Field("result", "result", "required")>>),
    Variant(<<"W", "e", "b", "S", "e", "a", "r", "c", "h", "B", "e", "g", "i", "n">>, <<>>,
            <<Field("call_id", "string", "required")>>),
    Variant(<<"W", "e", "b", "S", "e", "a", "r", "c", "h", "E", "n", "d">>, <<>>,
            <<Field("call_id", "string", "required"),
              Field("query", "string", "required")>>),
    Variant(<<"E", "x", "e", "c", "C", "o", "m", "m", "a", "n", "d", "B", "e", "g", "i", "n">>, <<>>,
            <<Field("call_id", "string", "required"),
              Field("command", "opaque", "required"),
              Field("cwd", "path", "required"),
              Field("parsed_cmd", "opaque", "required")>>),
    Variant(<<"E", "x", "e", "c", "C", "o", "m", "m", "a", "n", "d", "O", "u", "t", "p", "u", "t", "D", "e", "l", "t", "a">>, <<>>,
            <<Field("call_id", "string", "required"),
              Field("stream", "opaque", "required"),
              Field("chunk", "opaque", "required")>>),
    Variant(<<"E", "x", "e", "c", "C", "o", "m", "m", "a", "n", "d", "E", "n", "d">>, <<>>,
            <<Field("call_id", "string", "required"),
              Field("stdout", "string", "required"),
              Field("stderr", "string", "required"),
              Field("aggregated_output", "string", "default"),
              Field("exit_code", "number", "required"),
              Field("duration", "opaque", "required"),
              Field("formatted_output", "string", "required")>>),
    Variant(<<"E", "x", "e", "c", "A", "p", "p", "r", "o", "v", "a", "l", "R", "e", "q", "u", "e", "s", "t">>, <<>>,
            <<Field("call_id", "string", "required"),
              Field("command", "opaque", "required"),
              Field("cwd", "path", "required"),
              Field("reason", "string", "option_skip")>>),
    Variant(<<"A", "p", "p", "l", "y", "P", "a", "t", "c", "h", "A", "p", "p", "r", "o", "v", "a", "l", "R", "e", "q", "u", "e", "s", "t">>, <<>>,
            <<Field("call_id", "string", "required"),
              Field("changes", "opaque", "required"),
              Field("reason", "string", "option_skip"),
              Field("grant_root", "path", "option_skip")>>),
    Variant(<<"B", "a", "c", "k", "g", "r", "o", "u", "n", "d", "E", "v", "e", "n", "t">>, <<>>,
            <<Field("message", "string", "required")>>),
    Variant(<<"S", "t", "r", "e", "a", "m", "E", "r", "r", "o", "r">>, <<>>,
            <<Field("message", "string", "required")>>),
    Variant(<<"P", "a", "t", "c", "h", "A", "p", "p", "l", "y", "B", "e", "g", "i", "n">>, <<>>,
            <<Field("call_id", "string", "required"),
              Field("auto_approved", "bool", "required"),
              Field("changes", "opaque", "required")>>),
    Variant(<<"P", "a", "t", "c", "h", "A", "p", "p", "l", "y", "E", "n", "d">>, <<>>,
            <<Field("call_id", "string", "required"),
              Field("stdout", "string", "required"),
              Field("stderr", "string", "required"),
              Field("success", "bool", "required")>>),
    Variant(<<"T", "u", "r", "n", "D", "i", "f", "f">>, <<>>,
            <<Field("unified_diff", "string", "required")>>),
    Variant(<<"G", "e", "t", "H", "i", "s", "t", "o", "r", "y", "E", "n", "t", "r", "y", "R", "e", "s", "p", "o", "n", "s", "e">>, <<>>,
            <<Field("offset", "number", "required"),
              Field("log_id", "number", "required"),
              Field("entry", "opaque", "option_skip")>>),
    Variant(<<"M", "c", "p", "L", "i", "s", "t", "T", "o", "o", "l", "s", "R", "e", "s", "p", "o", "n", "s", "e">>, <<>>,
            <<Field("tools", "opaque", "required")>>),
    Variant(<<"L", "i", "s", "t", "C", "u", "s", "t", "o", "m", "P", "r", "o", "m", "p", "t", "s", "R", "e", "s", "p", "o", "n", "s", "e">>, <<>>,
            <<Field("custom_prompts", "opaque", "required")>>),
    Variant(<<"P", "l", "a", "n", "U", "p", "d", "a", "t", "e">>, <<>>,
            <<>>),
    Variant(<<"T", "u", "r", "n", "A", "b", "o", "r", "t", "e", "d">>, <<>>,
            <<Field("reason", "opaque", "required")>>),
    Variant(<<"S", "h", "u", "t", "d", "o", "w", "n", "C", "o", "m", "p", "l", "e", "t", "e">>, <<>>,
            <<>>),
    Variant(<<"C", "o", "n", "v", "e", "r", "s", "a", "t", "i", "o", "n", "H", "i", "s", "t", "o", "r", "y">>, <<>>,
            <<Field("conversation_id", "string", "required"),
              Field("entries", "opaque", "required")>>)>>

\* enum SandboxPolicy, each variant with its #[serde(rename = ...)]
SandboxPolicyVariants == <<
    Variant(<<"D", "a", "n", "g", "e", "r", "F", "u", "l", "l", "A", "c", "c", "e", "s", "s">>,
            <<"d", "a", "n", "g", "e", "r", "-", "f", "u", "l", "l", "-", "a", "c", "c", "e", "s", "s">>,
            <<>>),
    Variant(<<"R", "e", "a", "d", "O", "n", "l", "y">>,
            <<"r", "e", "a", "d", "-", "o", "n", "l", "y">>,
            <<>>),
    Variant(<<"W", "o", "r", "k", "s", "p", "a", "c", "e", "W", "r", "i", "t", "e">>,
            <<"w", "o", "r", "k", "s", "p", "a", "c", "e", "-", "w", "r", "i", "t", "e">>,
            <<Field("writable_roots", "paths", "default_skip_empty"),
              Field("network_access", "bool", "default"),
              Field("exclude_tmpdir_env_var", "bool", "default"),
              Field("exclude_slash_tmp", "bool", "default")>>)>>

\* struct McpInvocation
McpInvocationFields ==
    <<Field("server", "string", "required"),
      Field("tool", "string", "required"),
      Field("arguments", "value", "option")>>
\* struct Submission and struct Event
SubmissionFields ==
    <<Field("id", "string", "required"), Field("op", "op", "required")>>
EventFields ==
    <<Field("id", "string", "required"),
      Field("msg", "event_msg", "required")>>

\* the internally tagged enums: #[serde(tag = ..., rename_all = ...)]
OpEnum == [tag |-> "type", variants |-> OpVariants]
EventMsgEnum == [tag |-> "type", variants |-> EventMsgVariants]
SandboxPolicyEnum == [tag |-> "mode", variants |-> SandboxPolicyVariants]

IsEnum(kind) == kind \in {"op", "event_msg", "sandbox_policy"}
IsStruct(kind) == kind \in {"mcp_invocation", "submission", "event"}
EnumOf(kind) ==
    CASE kind = "op" -> OpEnum
      [] kind = "event_msg" -> EventMsgEnum
      [] kind = "sandbox_policy" -> SandboxPolicyEnum
StructOf(kind) ==
    CASE kind = "mcp_invocation" -> McpInvocationFields
      [] kind = "submission" -> SubmissionFields
      [] kind = "event" -> EventFields

Upper ==
    {"A", "B", "C", "D", "E", "F", "G", "H", "I", "J", "K", "L", "M", "N",
     "O", "P", "Q", "R", "S", "T", "U", "V", "W", "X", "Y", "Z"}
to_ascii_lowercase(ch) ==
    CASE ch = "A" -> "a" [] ch = "B" -> "b" [] ch = "C" -> "c"
      [] ch = "D" -> "d" [] ch = "E" -> "e" [] ch = "F" -> "f"
      [] ch = "G" -> "g" [] ch = "H" -> "h" [] ch = "I" -> "i"
      [] ch = "J" -> "j" [] ch = "K" -> "k" [] ch = "L" -> "l"
      [] ch = "M" -> "m" [] ch = "N" -> "n" [] ch = "O" -> "o"
      [] ch = "P" -> "p" [] ch = "Q" -> "q" [] ch = "R" -> "r"
      [] ch = "S" -> "s" [] ch = "T" -> "t" [] ch = "U" -> "u"
      [] ch = "V" -> "v" [] ch = "W" -> "w" [] ch = "X" -> "x"
      [] ch = "Y" -> "y" [] ch = "Z" -> "z" [] OTHER -> ch

\* (fault variant of snake_case: the words are not separated)
RECURSIVE lowercase(_)
lowercase(variant) ==
    IF variant = <<>> THEN <<>>
    ELSE <<to_ascii_lowercase(Head(variant))>> \o lowercase(Tail(variant))

\* rename_all = "snake_case" on a variant name: an underscore before every
\* upper-case letter but the first, every letter in lower case
RECURSIVE SnakeFrom(_, _)
SnakeFrom(variant, i) ==
    IF i > Len(variant) THEN <<>>
    ELSE (IF i > 1 /\ variant[i] \in Upper THEN <<"_">> ELSE <<>>)
         \o <<to_ascii_lowercase(variant[i])>>
         \o SnakeFrom(variant, i + 1)
snake_case(variant) == SnakeFrom(variant, 1)

\* the tag of a variant: its rename if it has one, else the renamed name
TagOf(variant) ==
    IF variant.rename # <<>> THEN variant.rename
    ELSE snake_case(variant.name)

\* a PathBuf: its text, and whether its bytes are valid UTF-8
PathBuf(s, utf8) == [s |-> s, utf8 |-> utf8]
\* Result<CallToolResult, String>; CallToolResult by its is_error alone
CallToolResult(is_error) == [is_error |-> is_error]
ResultOk(result) == [Ok |-> result]
ResultErr(message) == [Err |-> message]
IsOk(result) == "Ok" \in DOMAIN result
\* a value of an enum: the variant's name and its fields
EnumValue(name, payload) == [name |-> name, payload |-> payload]
NoFields == <<>>

\* the values each kind of field is drawn from
RECURSIVE KindSamples(_), Samples(_), StructValues(_, _), EnumValues(_)
KindSamples(kind) ==
    CASE kind = "string" -> {"s"}
      [] kind = "number" -> {0}
      [] kind = "bool" -> BOOLEAN
      [] kind = "opaque" -> {"o"}
      [] kind = "path" -> {PathBuf("/proj", TRUE), PathBuf("/proj", FALSE)}
      [] kind = "paths" -> {<<>>, <<PathBuf("/proj", TRUE)>>}
      [] kind = "value" -> {JNull, JStr("s")}
      [] kind = "result" ->
           {ResultErr("e")}
           \cup {ResultOk(CallToolResult(e)) :
                     e \in {None, Some(TRUE), Some(FALSE)}}
      [] IsStruct(kind) -> StructValues(StructOf(kind), 1)
      [] IsEnum(kind) -> EnumValues(EnumOf(kind))
Samples(field) ==
    IF field.presence \in {"option", "option_skip"}
    THEN {None} \cup {Some(v) : v \in KindSamples(field.kind)}
    ELSE IF field.presence = "default" /\ field.kind = "string"
    THEN KindSamples(field.kind) \cup {""}
    ELSE KindSamples(field.kind)
StructValues(fields, i) ==
    IF i > Len(fields) THEN {NoFields}
    ELSE {(fields[i].name :> v) @@ rest :
              v \in Samples(fields[i]),
              rest \in StructValues(fields, i + 1)}
EnumValues(enum) ==
    UNION {{EnumValue(enum.variants[i].name, payload) :
                payload \in StructValues(enum.variants[i].fields, 1)} :
           i \in 1..Len(enum.variants)}

VariantNamed(enum, name) ==
    enum.variants[CHOOSE i \in 1..Len(enum.variants) :
                      enum.variants[i].name = name]

\* Serialize: can the value be written, and what is written
RECURSIVE CanEncode(_, _), CanEncodeField(_, _), CanEncodeStruct(_, _),
          Encode(_, _), EncodeField(_, _), Members(_, _)

\* is the field left out: skip_serializing_if
Skipped(field, v) ==
    \/ field.presence = "option_skip" /\ v = None
    \/ field.presence = "default_skip_empty" /\ v = <<>>
OnWire(fields, value) ==
    {i \in 1..Len(fields) : ~Skipped(fields[i], value[fields[i].name])}

\* Path's Serialize fails on bytes that are not UTF-8
CanEncode(kind, v) ==
    CASE kind = "path" -> v.utf8
      [] kind = "paths" -> \A i \in 1..Len(v) : v[i].utf8
      [] IsStruct(kind) -> CanEncodeStruct(StructOf(kind), v)
      [] IsEnum(kind) ->
           CanEncodeStruct(VariantNamed(EnumOf(kind), v.name).fields,
                           v.payload)
      [] OTHER -> TRUE
CanEncodeField(field, v) ==
    IF field.presence \in {"option", "option_skip"}
    THEN v = None \/ CanEncode(field.kind, v[1])
    ELSE CanEncode(field.kind, v)
CanEncodeStruct(fields, value) ==
    \A i \in OnWire(fields, value) :
        CanEncodeField(fields[i], value[fields[i].name])

Encode(kind, v) ==
    CASE kind = "string" -> JStr(v)
      [] kind = "number" -> JNum(v)
      [] kind = "bool" -> JBool(v)
      [] kind = "opaque" -> JOpaque(v)
      [] kind = "path" -> JStr(v.s)
      [] kind = "paths" -> JArr([i \in 1..Len(v) |-> JStr(v[i].s)])
      [] kind = "value" -> v
      [] kind = "result" ->
           IF IsOk(v) THEN JObj("Ok" :> JOpaque(v.Ok))
           ELSE JObj("Err" :> JStr(v.Err))
      [] IsStruct(kind) -> JObj(Members(StructOf(kind), v))
      [] IsEnum(kind) ->
           LET variant == VariantNamed(EnumOf(kind), v.name)
           IN  JObj((EnumOf(kind).tag :> JStr(TagOf(variant)))
                    @@ Members(variant.fields, v.payload))
\* an Option is written as null or as its content
EncodeField(field, v) ==
    IF field.presence \in {"option", "option_skip"}
    THEN IF v = None THEN JNull ELSE Encode(field.kind, v[1])
    ELSE Encode(field.kind, v)
\* the members of a struct: every field that is not skipped, by its name
Members(fields, value) ==
    LET NameOf(n) == CHOOSE i \in OnWire(fields, value) : fields[i].name = n
    IN  [n \in {fields[i].name : i \in OnWire(fields, value)} |->
            EncodeField(fields[NameOf(n)], value[n])]

\* Deserialize: can the JSON be read as the kind, and what is read
RECURSIVE CanDecode(_, _), CanDecodeStruct(_, _), Decode(_, _),
          DecodeField(_, _), DecodeStruct(_, _)

HasMember(json, name) == name \in DOMAIN json.members
Default(kind) ==
    CASE kind = "string" -> ""
      [] kind = "bool" -> FALSE
      [] kind = "paths" -> <<>>
\* the variant the tag of the object names, if any
TagMatches(enum, json) ==
    {i \in 1..Len(enum.variants) :
         JStr(TagOf(enum.variants[i])) = json.members[enum.tag]}
VariantTagged(enum, json) ==
    enum.variants[CHOOSE i \in TagMatches(enum, json) : TRUE]

\* the field takes its absent value: a missing Option or defaulted field,
\* and an Option given as null
Absent(field, json) ==
    \/ field.presence # "required" /\ ~HasMember(json, field.name)
    \/ /\ field.presence \in {"option", "option_skip"}
       /\ HasMember(json, field.name)
       /\ json.members[field.name].j = "null"

CanDecode(kind, json) ==
    CASE kind = "string" -> json.j = "string"
      [] kind = "number" -> json.j = "number"
      [] kind = "bool" -> json.j = "bool"
      [] kind = "opaque" -> json.j = "opaque"
      [] kind = "path" -> json.j = "string"
      [] kind = "paths" ->
           /\ json.j = "array"
           /\ \A i \in 1..Len(json.items) : json.items[i].j = "string"
      [] kind = "value" -> TRUE
      [] kind = "result" ->
           /\ json.j = "object"
           /\ DOMAIN json.members \in {{"Ok"}, {"Err"}}
      [] IsStruct(kind) ->
           json.j = "object" /\ CanDecodeStruct(StructOf(kind), json)
      [] IsEnum(kind) ->
           /\ json.j = "object"
           /\ HasMember(json, EnumOf(kind).tag)
           /\ json.members[EnumOf(kind).tag].j = "string"
           /\ TagMatches(EnumOf(kind), json) # {}
           /\ CanDecodeStruct(VariantTagged(EnumOf(kind), json).fields, json)
CanDecodeStruct(fields, json) ==
    \A i \in 1..Len(fields) :
        \/ Absent(fields[i], json)
        \/ /\ HasMember(json, fields[i].name)
           /\ CanDecode(fields[i].kind, json.members[fields[i].name])

Decode(kind, json) ==
    CASE kind = "string" -> json.s
      [] kind = "number" -> json.n
      [] kind = "bool" -> json.b
      [] kind = "opaque" -> json.v
      [] kind = "path" -> PathBuf(json.s, TRUE)
      [] kind = "paths" ->
           [i \in 1..Len(json.items) |-> PathBuf(json.items[i].s, TRUE)]
      [] kind = "value" -> json
      [] kind = "result" ->
           IF HasMember(json, "Ok") THEN ResultOk(json.members["Ok"].v)
           ELSE ResultErr(json.members["Err"].s)
      [] IsStruct(kind) -> DecodeStruct(StructOf(kind), json)
      [] IsEnum(kind) ->
           LET variant == VariantTagged(EnumOf(kind), json)
           IN  EnumValue(variant.name, DecodeStruct(variant.fields, json))
DecodeField(field, json) ==
    IF Absent(field, json)
    THEN IF field.presence \in {"option", "option_skip"} THEN None
         ELSE Default(field.kind)
    ELSE IF field.presence \in {"option", "option_skip"}
    THEN Some(Decode(field.kind, json.members[field.name]))
    ELSE Decode(field.kind, json.members[field.name])
DecodeStruct(fields, json) ==
    LET IndexOf(n) == CHOOSE i \in 1..Len(fields) : fields[i].name = n
    IN  [n \in {fields[i].name : i \in 1..Len(fields)} |->
            DecodeField(fields[IndexOf(n)], json)]

\* serde_json::to_string(v) and serde_json::from_str(s)
NoJson == [ok |-> FALSE, json |-> JNull]
to_string(kind, v) ==
    IF CanEncode(kind, v) THEN [ok |-> TRUE, json |-> Encode(kind, v)]
    ELSE NoJson
from_str(kind, json, otherwise) ==
    IF CanDecode(kind, json) THEN [ok |-> TRUE, value |-> Decode(kind, json)]
    ELSE [ok |-> FALSE, value |-> otherwise]

\* (fault variant of is_success: an absent is_error counts as an error)
is_success_flag_required(self) ==
    IF IsOk(self.result)
    THEN ~unwrap_or(self.result.Ok.is_error, TRUE)
    ELSE FALSE

\* McpToolCallEndEvent::is_success
is_success(self) ==
    IF IsOk(self.result)
    THEN ~unwrap_or(self.result.Ok.is_error, FALSE)
    ELSE FALSE

McpToolCallBegin ==
    <<"M", "c", "p", "T", "o", "o", "l", "C", "a", "l", "l", "B", "e", "g",
      "i", "n">>
McpToolCallEnd ==
    <<"M", "c", "p", "T", "o", "o", "l", "C", "a", "l", "l", "E", "n", "d">>
Submissions == KindSamples("submission")
Events == KindSamples("event")
NoWire == [kind |-> "none", v |-> 0]
NoBack == [ok |-> FALSE, value |-> 0]

WireIdle ==
    /\ x_pc = "off"
    /\ x_value = NoWire
    /\ x_json = NoJson
    /\ x_back = NoBack
    /\ x_success = FALSE

WireInit ==
    /\ x_pc = "value"
    /\ x_value \in {[kind |-> "submission", v |-> v] : v \in Submissions}
                   \cup {[kind |-> "event", v |-> v] : v \in Events}
    /\ x_json = NoJson
    /\ x_back = NoBack
    /\ x_success = FALSE

\* serde_json::to_string(&x_value)
Serialize ==
    /\ x_pc = "value"
    /\ x_json' = to_string(x_value.kind, x_value.v)
    /\ x_pc' = "encoded"
    /\ UNCHANGED <<x_value, x_back, x_success>>

\* serde_json::from_str(&x_json)
Deserialize ==
    /\ x_pc = "encoded"
    /\ x_json.ok
    /\ x_back' = from_str(x_value.kind, x_json.json, 0)
    /\ x_pc' = "decoded"
    /\ UNCHANGED <<x_value, x_json, x_success>>

\* the McpToolCallEnd event's is_success()
IsSuccess ==
    /\ x_pc = "value"
    /\ x_value.kind = "event"
    /\ x_value.v.msg.name = McpToolCallEnd
    /\ x_success' = is_success(x_value.v.msg.payload)
    /\ x_pc' = "asked"
    /\ UNCHANGED <<x_value, x_json, x_back>>

\* ------------------------------------------------------------------------
\* Process start-up: arg0_dispatch_or_else (arg0/src/lib.rs)
\* ------------------------------------------------------------------------
ILLEGAL_ENV_VAR_PREFIX == <<"C", "O", "D", "E", "X", "_">>
CODEX_HOME == <<"C", "O", "D", "E", "X", "_", "H", "O", "M", "E">>
codex_home == <<"c", "o", "d", "e", "x", "_", "h", "o", "m", "e">>
PATH == <<"P", "A", "T", "H">>
EnvNames == {CODEX_HOME, codex_home, PATH}

to_ascii_uppercase(ch) ==
    CASE ch = "a" -> "A" [] ch = "b" -> "B" [] ch = "c" -> "C"
      [] ch = "d" -> "D" [] ch = "e" -> "E" [] ch = "f" -> "F"
      [] ch = "g" -> "G" [] ch = "h" -> "H" [] ch = "i" -> "I"
      [] ch = "j" -> "J" [] ch = "k" -> "K" [] ch = "l" -> "L"
      [] ch = "m" -> "M" [] ch = "n" -> "N" [] ch = "o" -> "O"
      [] ch = "p" -> "P" [] ch = "q" -> "Q" [] ch = "r" -> "R"
      [] ch = "s" -> "S" [] ch = "t" -> "T" [] ch = "u" -> "U"
      [] ch = "v" -> "V" [] ch = "w" -> "W" [] ch = "x" -> "X"
      [] ch = "y" -> "Y" [] ch = "z" -> "Z"
      [] OTHER -> ch
RECURSIVE str_to_ascii_uppercase(_)
str_to_ascii_uppercase(key) ==
    IF key = <<>> THEN <<>>
    ELSE <<to_ascii_uppercase(Head(key))>>
         \o str_to_ascii_uppercase(Tail(key))
\* str::starts_with
str_starts_with(s, prefix) ==
    Len(prefix) <= Len(s) /\ SubSeq(s, 1, Len(prefix)) = prefix

\* (fault variant of Filtered: no key is held back)
FilteredNone(key) == FALSE

\* !key.to_ascii_uppercase().starts_with(ILLEGAL_ENV_VAR_PREFIX), negated
Filtered(key) ==
    str_starts_with(str_to_ascii_uppercase(key), ILLEGAL_ENV_VAR_PREFIX)

\* the environment: each name unset (None) or set to a value (Some); a
\* value is the list of its ":"-separated parts
set_var(env, key, value) == [env EXCEPT ![key] = Some(value)]

\* an item of a dotenvy iterator: Ok((key, value)) or Err
DotenvOk(key, value) == [ok |-> TRUE, key |-> key, value |-> value]
DotenvErr == [ok |-> FALSE, key |-> <<>>, value |-> <<>>]

\* set_filtered: the loop over iter.into_iter().flatten()
RECURSIVE set_filtered(_, _, _)
set_filtered(env, iter, i) ==
    IF i > Len(iter) THEN env
    ELSE IF ~iter[i].ok THEN set_filtered(env, iter, i + 1)
    ELSE IF ~Filtered(iter[i].key)
    THEN set_filtered(set_var(env, iter[i].key, iter[i].value), iter, i + 1)
    ELSE set_filtered(env, iter, i + 1)

\* a .env file: Some(items) or None when it cannot be opened (for the file
\* of the home directory also when find_codex_home fails)
\* load_dotenv: ~/.codex/.env first, then $(pwd)/.env
load_dotenv(env, files) ==
    LET after_home ==
            IF files.home = None THEN env
            ELSE set_filtered(env, files.home[1], 1)
    IN  IF files.cwd = None THEN after_home
        ELSE set_filtered(after_home, files.cwd[1], 1)

\* prepend_path_entry_for_apply_patch, once the directory and its links
\* exist: PATH becomes the directory, followed by the existing PATH if any
TempDirEntry == "tempdir"
updated_path_env_var(env) ==
    IF env[PATH] = None THEN <<TempDirEntry>>
    ELSE <<TempDirEntry>> \o env[PATH][1]
prepend_path_entry_for_apply_patch(env) ==
    set_var(env, PATH, updated_path_env_var(env))

\* (fault variant of Statements: the runtime is created first)
StatementsRuntimeFirst ==
    <<"runtime_new", "load_dotenv", "prepend_path", "block_on">>

\* the statements of arg0_dispatch_or_else after the dispatch, in order
Statements == <<"load_dotenv", "prepend_path", "runtime_new", "block_on">>

DotenvValues == {<<"a">>}
DotenvItems ==
    {DotenvErr} \cup {DotenvOk(k, v) : k \in EnvNames, v \in DotenvValues}
DotenvFiles ==
    {None} \cup {Some(items) : items \in SeqsUpTo(DotenvItems, MaxEntries)}
Environments ==
    {[n \in EnvNames |-> None],
     (PATH :> Some(<<"/bin">>)) @@ [n \in EnvNames |-> None],
     (PATH :> Some(<<"/bin">>)) @@ (CODEX_HOME :> Some(<<"old">>))
         @@ [n \in EnvNames |-> None]}
CODEX_APPLY_PATCH_ARG1 == "--codex-run-as-apply-patch"
LINUX_SANDBOX_ARG0 == "codex-linux-sandbox"
APPLY_PATCH_ARG0 == "apply_patch"
MISSPELLED_APPLY_PATCH_ARG0 == "applypatch"
\* argv[0] (its file name) and argv[1]
Argv ==
    {<<"codex", "">>, <<"codex", CODEX_APPLY_PATCH_ARG1>>,
     <<LINUX_SANDBOX_ARG0, "">>, <<APPLY_PATCH_ARG0, "">>,
     <<MISSPELLED_APPLY_PATCH_ARG0, "">>}

Arg0Idle ==
    /\ e_pc = "off"
    /\ e_argv = <<"codex", "">>
    /\ e_files = [home |-> None, cwd |-> None]
    /\ e_env0 = [n \in EnvNames |-> None]
    /\ e_env = [n \in EnvNames |-> None]
    /\ e_next = 1
    /\ e_runtime = FALSE
    /\ e_tasks = 0

Arg0Init ==
    /\ e_pc = "start"
    /\ e_argv \in Argv
    /\ e_files \in [home : DotenvFiles, cwd : DotenvFiles]
    /\ e_env0 \in Environments
    /\ e_env = e_env0
    /\ e_next = 1
    /\ e_runtime = FALSE
    /\ e_tasks = 0

arg0Unchanged == <<e_argv, e_files, e_env0>>
At(statement) ==
    /\ e_pc = "dispatched"
    /\ e_next <= Len(Statements)
    /\ Statements[e_next] = statement

\* exe_name is an alias: run_main() / codex_apply_patch::main() take over
\* and do not return
DispatchAlias ==
    /\ e_pc = "start"
    /\ \/ e_argv[1] = LINUX_SANDBOX_ARG0
       \/ e_argv[1] = APPLY_PATCH_ARG0
       \/ e_argv[1] = MISSPELLED_APPLY_PATCH_ARG0
    /\ e_pc' = "alias"
    /\ UNCHANGED <<arg0Unchanged, e_env, e_next, e_runtime, e_tasks>>

\* argv1 == CODEX_APPLY_PATCH_ARG1: apply the patch and process::exit
DispatchApplyPatch ==
    /\ e_pc = "start"
    /\ e_argv[1] \notin
           {LINUX_SANDBOX_ARG0, APPLY_PATCH_ARG0, MISSPELLED_APPLY_PATCH_ARG0}
    /\ e_argv[2] = CODEX_APPLY_PATCH_ARG1
    /\ e_pc' = "exited"
    /\ UNCHANGED <<arg0Unchanged, e_env, e_next, e_runtime, e_tasks>>

\* neither: go on to the regular start-up
DispatchMain ==
    /\ e_pc = "start"
    /\ e_argv[1] \notin
           {LINUX_SANDBOX_ARG0, APPLY_PATCH_ARG0, MISSPELLED_APPLY_PATCH_ARG0}
    /\ e_argv[2] # CODEX_APPLY_PATCH_ARG1
    /\ e_pc' = "dispatched"
    /\ UNCHANGED <<arg0Unchanged, e_env, e_next, e_runtime, e_tasks>>

\* load_dotenv();
LoadDotenv ==
    /\ At("load_dotenv")
    /\ e_env' = load_dotenv(e_env, e_files)
    /\ e_next' = e_next + 1
    /\ UNCHANGED <<arg0Unchanged, e_pc, e_runtime, e_tasks>>

\* prepend_path_entry_for_apply_patch() returns Ok: PATH is updated
PrependPathOk ==
    /\ At("prepend_path")
    /\ e_env' = prepend_path_entry_for_apply_patch(e_env)
    /\ e_next' = e_next + 1
    /\ UNCHANGED <<arg0Unchanged, e_pc, e_runtime, e_tasks>>

\* it returns Err (TempDir::new, current_exe or symlink failed) before
\* PATH is touched: a warning, and the start-up goes on
PrependPathErr ==
    /\ At("prepend_path")
    /\ e_next' = e_next + 1
    /\ UNCHANGED <<arg0Unchanged, e_pc, e_env, e_runtime, e_tasks>>

\* tokio::runtime::Runtime::new()? succeeds: the worker threads exist
RuntimeNew ==
    /\ At("runtime_new")
    /\ e_runtime' = TRUE
    /\ e_next' = e_next + 1
    /\ UNCHANGED <<arg0Unchanged, e_pc, e_env, e_tasks>>

\* Runtime::new()? fails: the error is returned
RuntimeNewErr ==
    /\ At("runtime_new")
    /\ e_pc' = "exited"
    /\ UNCHANGED <<arg0Unchanged, e_env, e_next, e_runtime, e_tasks>>

\* runtime.block_on(async move { main_fn(..).await }): main_fn starts
BlockOn ==
    /\ At("block_on")
    /\ e_pc' = "main_fn"
    /\ UNCHANGED <<arg0Unchanged, e_env, e_next, e_runtime, e_tasks>>

\* main_fn spawns a task; tasks read the environment (TMPDIR, PATH)
SpawnTask ==
    /\ e_pc = "main_fn"
    /\ e_tasks < MaxTasks
    /\ e_tasks' = e_tasks + 1
    /\ UNCHANGED <<arg0Unchanged, e_pc, e_env, e_next, e_runtime>>

\* main_fn's future completes: block_on returns its result
MainReturns ==
    /\ e_pc = "main_fn"
    /\ e_pc' = "exited"
    /\ UNCHANGED <<arg0Unchanged, e_env, e_next, e_runtime, e_tasks>>

\* ------------------------------------------------------------------------
\* The TUI agent: spawn_agent and spawn_agent_from_existing
\* ------------------------------------------------------------------------
\* `id: "".to_string()`: the id of the forwarded SessionConfigured event
FakeId == ""
Event(id, msg) == [id |-> id, msg |-> msg]
\* Event { id: "", msg: EventMsg::SessionConfigured(session_configured) }
SessionConfiguredEv == Event(FakeId, "session_configured")

\* the op forwarder is spawned before the SessionConfigured event is sent
BootstrapForwarderFirst ==
    <<"spawn_op_forwarder", "send_session_configured", "forward_events">>

\* the statements of the agent's task once it holds the conversation
Bootstrap ==
    <<"send_session_configured", "spawn_op_forwarder", "forward_events">>

\* the failure of new_conversation is reported to the UI as an Error event
OnInitErrorReported(ui) == Append(ui, Event(FakeId, "error"))

\* Err(e) of new_conversation: tracing::error! and return; the UI's channel
\* is left as it is
OnInitError(ui) == ui

\* the event is sent twice
SendTwice(ui, ev) == ui \o <<ev, ev>>

\* app_event_tx_clone.send(AppEvent::CodexEvent(event))
Send(ui, ev) == Append(ui, ev)

\* the op loop ends at the first submit that fails
LoopContinuesOnlyOk(result) == result = "Ok"

\* `if let Err(e) = id { tracing::error!(..) }`: the while loop goes on to
\* the next recv() whatever submit returned
LoopContinues(result) == TRUE

AgentFns == {"spawn_agent", "spawn_agent_from_existing"}
\* what conversation.next_event() yields after the first event, which
\* finalize_spawn has taken
StreamEvents == [id : {FakeId, "1"}, msg : {"task_started", "agent_message"}]
Streams == SeqsUpTo(StreamEvents, MaxStream)
UiOps == {"user_turn", "interrupt"}
SubmitResults == {"Ok", "Err"}

AgentIdle ==
    /\ g_fn = "none"
    /\ g_pc = "off"
    /\ g_next = 1
    /\ g_stream = <<>>
    /\ g_yielded = <<>>
    /\ g_cur = None
    /\ g_ui = <<>>
    /\ g_op_rx = <<>>
    /\ g_sent = <<>>
    /\ g_forwarder = FALSE
    /\ g_submitted = <<>>
    /\ g_logged = 0

\* the function has returned codex_op_tx and its task is spawned
AgentInit ==
    /\ g_fn \in AgentFns
    /\ g_pc = "start"
    /\ g_next = 1
    /\ g_stream \in Streams
    /\ g_yielded = <<>>
    /\ g_cur = None
    /\ g_ui = <<>>
    /\ g_op_rx = <<>>
    /\ g_sent = <<>>
    /\ g_forwarder = FALSE
    /\ g_submitted = <<>>
    /\ g_logged = 0

AtBoot(statement) ==
    /\ g_pc = "running"
    /\ Bootstrap[g_next] = statement

\* server.new_conversation(config).await is Ok
NewConversationOk ==
    /\ g_fn = "spawn_agent"
    /\ g_pc = "start"
    /\ g_pc' = "running"
    /\ UNCHANGED <<g_fn, g_next, g_stream, g_yielded, g_cur, g_ui, g_op_rx,
                   g_sent, g_forwarder, g_submitted, g_logged>>

\* server.new_conversation(config).await is Err: the error is logged and
\* the task returns, dropping codex_op_rx and the Ops waiting in it
NewConversationErr ==
    /\ g_fn = "spawn_agent"
    /\ g_pc = "start"
    /\ g_pc' = "failed"
    /\ g_ui' = OnInitError(g_ui)
    /\ g_op_rx' = <<>>
    /\ UNCHANGED <<g_fn, g_next, g_stream, g_yielded, g_cur, g_sent,
                   g_forwarder, g_submitted, g_logged>>

\* the task of spawn_agent_from_existing starts with the conversation and
\* the SessionConfiguredEvent it was given
FromExisting ==
    /\ g_fn = "spawn_agent_from_existing"
    /\ g_pc = "start"
    /\ g_pc' = "running"
    /\ UNCHANGED <<g_fn, g_next, g_stream, g_yielded, g_cur, g_ui, g_op_rx,
                   g_sent, g_forwarder, g_submitted, g_logged>>

\* app_event_tx_clone.send(AppEvent::CodexEvent(ev))
SendSessionConfigured ==
    /\ AtBoot("send_session_configured")
    /\ g_ui' = Append(g_ui, SessionConfiguredEv)
    /\ g_next' = g_next + 1
    /\ UNCHANGED <<g_fn, g_pc, g_stream, g_yielded, g_cur, g_op_rx, g_sent,
                   g_forwarder, g_submitted, g_logged>>

\* tokio::spawn of the loop over codex_op_rx
SpawnOpForwarder ==
    /\ AtBoot("spawn_op_forwarder")
    /\ g_forwarder' = TRUE
    /\ g_next' = g_next + 1
    /\ UNCHANGED <<g_fn, g_pc, g_stream, g_yielded, g_cur, g_ui, g_op_rx,
                   g_sent, g_submitted, g_logged>>

\* `while let Ok(event) = conversation.next_event().await`: Ok(event)
NextEventOk ==
    /\ AtBoot("forward_events")
    /\ g_cur = None
    /\ g_stream # <<>>
    /\ g_cur' = Some(Head(g_stream))
    /\ g_yielded' = Append(g_yielded, Head(g_stream))
    /\ g_stream' = Tail(g_stream)
    /\ UNCHANGED <<g_fn, g_pc, g_next, g_ui, g_op_rx, g_sent, g_forwarder,
                   g_submitted, g_logged>>

\* the body of the loop: the event is sent to the UI
ForwardEvent ==
    /\ AtBoot("forward_events")
    /\ g_cur # None
    /\ g_ui' = Send(g_ui, g_cur[1])
    /\ g_cur' = None
    /\ UNCHANGED <<g_fn, g_pc, g_next, g_stream, g_yielded, g_op_rx, g_sent,
                   g_forwarder, g_submitted, g_logged>>

\* next_event() is Err: the loop and the task end; what the conversation
\* might still hold is never asked for
ConversationEnds ==
    /\ AtBoot("forward_events")
    /\ g_cur = None
    /\ g_pc' = "stopped"
    /\ UNCHANGED <<g_fn, g_next, g_stream, g_yielded, g_cur, g_ui, g_op_rx,
                   g_sent, g_forwarder, g_submitted, g_logged>>

\* the UI sends an Op on the codex_op_tx the function returned; once the
\* receiver is dropped the send fails and the Op goes nowhere
UiSendsOp ==
    /\ g_pc # "off"
    /\ Len(g_sent) < MaxOps
    /\ \E op \in UiOps :
           /\ g_sent' = Append(g_sent, op)
           /\ g_op_rx' = IF g_pc = "failed" THEN g_op_rx
                         ELSE Append(g_op_rx, op)
    /\ UNCHANGED <<g_fn, g_pc, g_next, g_stream, g_yielded, g_cur, g_ui,
                   g_forwarder, g_submitted, g_logged>>

\* one turn of `while let Some(op) = codex_op_rx.recv().await`:
\* conversation_clone.submit(op).await returned `result`
SubmitReturns(result) ==
    /\ g_forwarder
    /\ g_op_rx # <<>>
    /\ g_submitted' = Append(g_submitted, Head(g_op_rx))
    /\ g_op_rx' = Tail(g_op_rx)
    /\ g_logged' = IF result = "Err" THEN g_logged + 1 ELSE g_logged
    /\ g_forwarder' = LoopContinues(result)
    /\ UNCHANGED <<g_fn, g_pc, g_next, g_stream, g_yielded, g_cur, g_ui,
                   g_sent>>

SubmitOp == SubmitReturns("Ok")
SubmitOpErr == SubmitReturns("Err")

\* ------------------------------------------------------------------------
\* App: the commit animation (StartCommitAnimation / StopCommitAnimation)
\* ------------------------------------------------------------------------
\* a thread spawned by the k-th StartCommitAnimation that spawns one
AnimThreads == 1..MaxAnimEvents
NoThreads == [t \in AnimThreads |-> "unborn"]
NoTicks == [t \in AnimThreads |-> 0]
\* the thread is spawned and has not left its loop
Alive(t) == k_thread[t] \in {"load", "sleep"}
Unborn == {t \in AnimThreads : k_thread[t] = "unborn"}

\* the loop never looks at the flag
KeepsLoopingAlways(running) == TRUE

\* `while running.load(Ordering::Relaxed)`
KeepsLooping(running) == running

\* compare_exchange(false, true, ..).is_ok()
compare_exchange_is_ok(current, expected) == current = expected

AnimIdle ==
    /\ k_pc = "off"
    /\ k_running = FALSE
    /\ k_thread = NoThreads
    /\ k_handled = 0
    /\ k_stopped = FALSE
    /\ k_after = NoTicks

\* App::run: commit_anim_running: Arc::new(AtomicBool::new(false))
AnimInit ==
    /\ k_pc = "run"
    /\ k_running = FALSE
    /\ k_thread = NoThreads
    /\ k_handled = 0
    /\ k_stopped = FALSE
    /\ k_after = NoTicks

\* AppEvent::StartCommitAnimation, the exchange succeeds: a thread is
\* spawned
StartCommitAnimation ==
    /\ k_pc = "run"
    /\ k_handled < MaxAnimEvents
    /\ compare_exchange_is_ok(k_running, FALSE)
    /\ k_running' = TRUE
    /\ LET t == CHOOSE u \in Unborn : \A v \in Unborn : u <= v
       IN  k_thread' = [k_thread EXCEPT ![t] = "load"]
    /\ k_handled' = k_handled + 1
    /\ k_stopped' = FALSE
    /\ k_after' = NoTicks
    /\ UNCHANGED k_pc

\* AppEvent::StartCommitAnimation, the exchange fails: nothing is done
StartWhileRunning ==
    /\ k_pc = "run"
    /\ k_handled < MaxAnimEvents
    /\ ~compare_exchange_is_ok(k_running, FALSE)
    /\ k_handled' = k_handled + 1
    /\ k_stopped' = FALSE
    /\ k_after' = NoTicks
    /\ UNCHANGED <<k_pc, k_running, k_thread>>

\* AppEvent::StopCommitAnimation: commit_anim_running.store(false)
StopCommitAnimation ==
    /\ k_pc = "run"
    /\ k_handled < MaxAnimEvents
    /\ k_running' = FALSE
    /\ k_handled' = k_handled + 1
    /\ k_stopped' = TRUE
    /\ k_after' = NoTicks
    /\ UNCHANGED <<k_pc, k_thread>>

\* the thread evaluates the condition of its while loop
ThreadLoad(t) ==
    /\ k_thread[t] = "load"
    /\ k_thread' = [k_thread EXCEPT
                        ![t] = IF KeepsLooping(k_running) THEN "sleep"
                               ELSE "exited"]
    /\ UNCHANGED <<k_pc, k_running, k_handled, k_stopped, k_after>>

\* thread::sleep(50 ms); tx.send(AppEvent::CommitTick)
ThreadTick(t) ==
    /\ k_thread[t] = "sleep"
    /\ k_thread' = [k_thread EXCEPT ![t] = "load"]
    /\ k_after' = [k_after EXCEPT
                       ![t] = IF ~k_stopped THEN 0
                              ELSE IF @ < 2 THEN @ + 1 ELSE 2]
    /\ UNCHANGED <<k_pc, k_running, k_handled, k_stopped>>

\* ------------------------------------------------------------------------
\* App: history insertion (InsertHistoryLines / InsertHistoryCell)
\* ------------------------------------------------------------------------
\* Overlay::Transcript(t) with the lines of its view, Overlay::Static
TranscriptOverlay(lines) == [kind |-> "Transcript", lines |-> lines]
StaticOverlay(lines) == [kind |-> "Static", lines |-> lines]
\* `if let Some(Overlay::Transcript(t)) = &mut self.overlay`
IsTranscript(overlay) == overlay # None /\ overlay[1].kind = "Transcript"

\* display lines are deferred only under the transcript overlay
DeferringUnderTranscriptOnly(overlay) == IsTranscript(overlay)

\* `if self.overlay.is_some()`: the display lines are deferred
Deferring(overlay) == overlay # None

\* Vec::extend
extend(vec, lines) == vec \o lines

\* t.insert_lines(lines) on the transcript overlay, if that is the overlay
insert_lines(overlay, lines) ==
    IF IsTranscript(overlay)
    THEN Some(TranscriptOverlay(extend(overlay[1].lines, lines)))
    ELSE overlay

\* the Vec<Line> an event or a cell carries
LineVecs == {<<>>, <<"a">>, <<"b">>, <<"a", "b">>}
\* a HistoryCell: what transcript_lines() and display_lines() return
HistoryCells == [transcript_lines : LineVecs, display_lines : LineVecs]
NoAppEvent == [kind |-> "none", transcript |-> <<>>, display |-> <<>>]
NoArrivals == [transcript |-> <<>>, display |-> <<>>]

HistoryIdle ==
    /\ h_pc = "off"
    /\ h_overlay = None
    /\ h_transcript = <<>>
    /\ h_deferred = <<>>
    /\ h_terminal = <<>>
    /\ h_last = NoAppEvent
    /\ h_arrived = NoArrivals
    /\ h_count = 0

\* App::run: transcript_lines: Vec::new(), overlay: None,
\* deferred_history_lines: Vec::new()
HistoryInit ==
    /\ h_pc = "run"
    /\ h_overlay = None
    /\ h_transcript = <<>>
    /\ h_deferred = <<>>
    /\ h_terminal = <<>>
    /\ h_last = NoAppEvent
    /\ h_arrived = NoArrivals
    /\ h_count = 0

Handling(kind, transcript, display) ==
    /\ h_pc = "run"
    /\ h_count < MaxAppEvents
    /\ h_count' = h_count + 1
    /\ h_last' = [kind |-> kind, transcript |-> transcript,
                  display |-> display]
    /\ h_arrived' = [transcript |-> h_arrived.transcript \o transcript,
                     display |-> h_arrived.display \o display]
    /\ UNCHANGED h_pc

\* AppEvent::InsertHistoryLines(lines)
InsertHistoryLines ==
    \E lines \in LineVecs :
        /\ Handling("InsertHistoryLines", lines, lines)
        /\ h_overlay' = insert_lines(h_overlay, lines)
        /\ h_transcript' = extend(h_transcript, lines)
        /\ IF Deferring(h_overlay)
           THEN /\ h_deferred' = extend(h_deferred, lines)
                /\ UNCHANGED h_terminal
           ELSE /\ h_terminal' = extend(h_terminal, lines)
                /\ UNCHANGED h_deferred

\* AppEvent::InsertHistoryCell(cell)
InsertHistoryCell ==
    \E cell \in HistoryCells :
        LET cell_transcript == cell.transcript_lines
            display == cell.display_lines
        IN  /\ Handling("InsertHistoryCell", cell_transcript, display)
            /\ h_overlay' = insert_lines(h_overlay, cell_transcript)
            /\ h_transcript' = extend(h_transcript, cell_transcript)
            /\ IF display = <<>>
               THEN UNCHANGED <<h_deferred, h_terminal>>
               ELSE IF Deferring(h_overlay)
               THEN /\ h_deferred' = extend(h_deferred, display)
                    /\ UNCHANGED h_terminal
               ELSE /\ h_terminal' = extend(h_terminal, display)
                    /\ UNCHANGED h_deferred

\* AppEvent::DiffResult(text): the static overlay replaces what is shown
DiffResult ==
    /\ Handling("DiffResult", <<>>, <<>>)
    /\ h_overlay' = Some(StaticOverlay(<<"diff">>))
    /\ UNCHANGED <<h_transcript, h_deferred, h_terminal>>

\* Ctrl+T with no overlay active: the transcript overlay opens on a copy of
\* transcript_lines
OpenTranscript ==
    /\ h_overlay = None
    /\ Handling("OpenTranscript", <<>>, <<>>)
    /\ h_overlay' = Some(TranscriptOverlay(h_transcript))
    /\ UNCHANGED <<h_transcript, h_deferred, h_terminal>>

\* the overlay closes: the deferred lines are applied to the terminal
CloseOverlay ==
    /\ h_overlay # None
    /\ Handling("CloseOverlay", <<>>, <<>>)
    /\ h_overlay' = None
    /\ h_terminal' = extend(h_terminal, h_deferred)
    /\ h_deferred' = <<>>
    /\ UNCHANGED h_transcript

AppIdle == AnimIdle /\ HistoryIdle
AuxIdle == UsageIdle /\ WireIdle /\ Arg0Idle /\ AgentIdle /\ AppIdle

WritableIdle ==
    /\ w_root = WritableRoot(<<>>, <<>>)
    /\ w_path = <<>>
    /\ w_pc = "off"
    /\ w_result = FALSE

RootsIdle ==
    /\ r_policy = ReadOnly
    /\ r_cwd = <<>>
    /\ r_env = Env(FALSE, TmpdirUnset, {})
    /\ r_pc = "off"
    /\ r_roots = <<>>
    /\ r_probe = <<>>

PolicyIdle == WritableIdle /\ RootsIdle /\ DecideIdle

\* ConversationManager::new: an empty map
MgrInit ==
    /\ conversations = [x \in {} |-> NoCodex]
    /\ lock = Unlocked
    /\ issued = {}
    /\ pc = [p \in Callers |-> "idle"]
    /\ call = [p \in Callers |-> NoCall]
    /\ codex = [p \in Callers |-> NoCodex]
    /\ event = [p \in Callers |-> NoEvent]
    /\ ret = [p \in Callers |-> NoRet]
    /\ returned = [x \in {} |-> NoCodex]

TruncIdle ==
    /\ t_items = <<>>
    /\ t_n = 0
    /\ t_pc = "off"
    /\ t_out = <<>>
    /\ t_out0 = <<>>

Init == MgrInit /\ TruncIdle /\ SessInit /\ PolicyIdle /\ AuxIdle

Next ==
    /\ UNCHANGED <<truncVars, sessVars, policyVars, auxVars>>
    /\ \E p \in Callers :
         \/ NewConversationStart(p)
         \/ ForkConversationStart(p)
         \/ SpawnOk(p)
         \/ SpawnErr(p)
         \/ FirstEvent(p)
         \/ NextEventErr(p)
         \/ InsertAcquire(p)
         \/ Insert(p)
         \/ GetAcquire(p)
         \/ GetLookup(p)
         \/ RemoveAcquire(p)
         \/ Remove(p)

Spec == Init /\ [][Next]_vars

\* ------------------------------------------------------------------------
\* SpecTrunc: truncate_after_dropping_last_messages over bounded inputs
\* ------------------------------------------------------------------------
TruncInit ==
    /\ MgrInit
    /\ SessInit
    /\ PolicyIdle
    /\ AuxIdle
    /\ t_items \in TruncInputs
    /\ t_n \in 0..MaxN
    /\ t_pc = "input"
    /\ t_out = <<>>
    /\ t_out0 = <<>>

\* truncated = truncate_after_dropping_last_messages(items, n)
Truncate ==
    /\ t_pc = "input"
    /\ t_out' = truncate_after_dropping_last_messages(t_items, t_n)
    /\ t_pc' = "truncated"
    /\ UNCHANGED <<t_items, t_n, t_out0>>

\* truncate_after_dropping_last_messages(truncated, 0)
TruncateAgain ==
    /\ t_pc = "truncated"
    /\ t_out0' = truncate_after_dropping_last_messages(t_out, 0)
    /\ t_pc' = "again"
    /\ UNCHANGED <<t_items, t_n, t_out>>

TruncNext ==
    (Truncate \/ TruncateAgain) /\ UNCHANGED <<mgrVars, sessVars, policyVars, auxVars>>

SpecTrunc == TruncInit /\ [][TruncNext]_vars

\* ------------------------------------------------------------------------
\* SpecSession: one session's turn loop
\* ------------------------------------------------------------------------
SessionInit == MgrInit /\ TruncIdle /\ SessInit /\ PolicyIdle /\ AuxIdle

SpecSession == SessionInit /\ [][SessNext]_vars

\* ------------------------------------------------------------------------
\* SpecWritable: WritableRoot::is_path_writable over bounded inputs
\* ------------------------------------------------------------------------
WritableInit ==
    /\ MgrInit
    /\ TruncIdle
    /\ SessInit
    /\ RootsIdle
    /\ DecideIdle
    /\ AuxIdle
    /\ w_root \in WritableRoots
    /\ w_path \in Paths
    /\ w_pc = "input"
    /\ w_result = FALSE

\* w_root.is_path_writable(w_path)
IsPathWritable ==
    /\ w_pc = "input"
    /\ w_result' = is_path_writable(w_root, w_path)
    /\ w_pc' = "checked"
    /\ UNCHANGED <<w_root, w_path>>

WritableNext ==
    /\ IsPathWritable
    /\ UNCHANGED <<mgrVars, truncVars, sessVars, rootsVars, decideVars, auxVars>>

SpecWritable == WritableInit /\ [][WritableNext]_vars

\* ------------------------------------------------------------------------
\* SpecRoots: SandboxPolicy::get_writable_roots_with_cwd over bounded
\* policies, working directories and environments
\* ------------------------------------------------------------------------
RootsInit ==
    /\ MgrInit
    /\ TruncIdle
    /\ SessInit
    /\ WritableIdle
    /\ DecideIdle
    /\ AuxIdle
    /\ r_policy \in Policies
    /\ r_cwd \in CwdChoices
    /\ r_env \in Envs
    /\ r_pc = "input"
    /\ r_roots = <<>>
    /\ r_probe = <<>>

\* r_policy.get_writable_roots_with_cwd(r_cwd)
GetWritableRoots ==
    /\ r_pc = "input"
    /\ r_roots' = get_writable_roots_with_cwd(r_policy, r_cwd, r_env)
    /\ r_pc' = "derived"
    /\ UNCHANGED <<r_policy, r_cwd, r_env, r_probe>>

\* the paths at and under <root>/.git, and a sibling of .git
GitProbes(root) ==
    {Join(root, ".git"), Join(Join(root, ".git"), "hooks"), Join(root, "src")}

\* for each returned root w: w.is_path_writable(p) over the probed paths,
\* those of the root itself and those of cwd
ProbeGit ==
    /\ r_pc = "derived"
    /\ r_probe' = [i \in 1..Len(r_roots) |->
                      {p \in GitProbes(r_roots[i].root) \cup GitProbes(r_cwd) :
                           is_path_writable(r_roots[i], p)}]
    /\ r_pc' = "probed"
    /\ UNCHANGED <<r_policy, r_cwd, r_env, r_roots>>

RootsNext ==
    /\ GetWritableRoots \/ ProbeGit
    /\ UNCHANGED <<mgrVars, truncVars, sessVars, writableVars, decideVars, auxVars>>

SpecRoots == RootsInit /\ [][RootsNext]_vars

\* ------------------------------------------------------------------------
\* SpecUsage: the derived quantities of TokenUsage over every value of the
\* fields they read
\* ------------------------------------------------------------------------
BaseIdle == MgrInit /\ TruncIdle /\ SessInit /\ PolicyIdle

TokenUsageInit ==
    BaseIdle /\ WireIdle /\ Arg0Idle /\ AgentIdle /\ AppIdle /\ UsageInit

UsageNext ==
    /\ UNCHANGED <<mgrVars, truncVars, sessVars, policyVars, wireVars,
                   arg0Vars, agentVars, appVars>>
    /\ \/ NonCachedInput
       \/ BlendedTotal
       \/ TokensInContextWindow
       \/ PercentOfContextWindowRemaining

SpecUsage == TokenUsageInit /\ [][UsageNext]_vars

\* ------------------------------------------------------------------------
\* SpecWire: every modelled Submission and Event through serde_json
\* ------------------------------------------------------------------------
EncodingInit ==
    BaseIdle /\ UsageIdle /\ Arg0Idle /\ AgentIdle /\ AppIdle /\ WireInit

WireNext ==
    /\ UNCHANGED <<mgrVars, truncVars, sessVars, policyVars, usageVars,
                   arg0Vars, agentVars, appVars>>
    /\ \/ Serialize
       \/ Deserialize
       \/ IsSuccess

SpecWire == EncodingInit /\ [][WireNext]_vars

\* ------------------------------------------------------------------------
\* SpecArg0: the start-up of the process over bounded .env files
\* ------------------------------------------------------------------------
StartupInit ==
    BaseIdle /\ UsageIdle /\ WireIdle /\ AgentIdle /\ AppIdle /\ Arg0Init

Arg0Next ==
    /\ UNCHANGED <<mgrVars, truncVars, sessVars, policyVars, usageVars,
                   wireVars, agentVars, appVars>>
    /\ \/ DispatchAlias
       \/ DispatchApplyPatch
       \/ DispatchMain
       \/ LoadDotenv
       \/ PrependPathOk
       \/ PrependPathErr
       \/ RuntimeNew
       \/ RuntimeNewErr
       \/ BlockOn
       \/ SpawnTask
       \/ MainReturns

SpecArg0 == StartupInit /\ [][Arg0Next]_vars

\* ------------------------------------------------------------------------
\* SpecAgent: one agent, the conversation's events and the UI's Ops
\* ------------------------------------------------------------------------
AgentStart ==
    BaseIdle /\ UsageIdle /\ WireIdle /\ Arg0Idle /\ AppIdle /\ AgentInit

AgentNext ==
    /\ UNCHANGED <<mgrVars, truncVars, sessVars, policyVars, usageVars,
                   wireVars, arg0Vars, appVars>>
    /\ \/ NewConversationOk
       \/ NewConversationErr
       \/ FromExisting
       \/ SendSessionConfigured
       \/ SpawnOpForwarder
       \/ NextEventOk
       \/ ForwardEvent
       \/ ConversationEnds
       \/ UiSendsOp
       \/ SubmitOp
       \/ SubmitOpErr

SpecAgent == AgentStart /\ [][AgentNext]_vars

\* the runtime schedules the agent's two tasks, and a submit returns
AgentFairness ==
    /\ WF_agentVars(SendSessionConfigured)
    /\ WF_agentVars(SpawnOpForwarder)
    /\ WF_agentVars(SubmitOp \/ SubmitOpErr)

SpecAgentLive == AgentStart /\ [][AgentNext]_vars /\ AgentFairness

\* ------------------------------------------------------------------------
\* SpecAnim: the App handling Start/StopCommitAnimation, and its threads
\* ------------------------------------------------------------------------
AnimStart ==
    /\ BaseIdle /\ UsageIdle /\ WireIdle /\ Arg0Idle /\ AgentIdle
    /\ HistoryIdle /\ AnimInit

AnimNext ==
    /\ UNCHANGED <<mgrVars, truncVars, sessVars, policyVars, usageVars,
                   wireVars, arg0Vars, agentVars, historyVars>>
    /\ \/ StartCommitAnimation
       \/ StartWhileRunning
       \/ StopCommitAnimation
       \/ \E t \in AnimThreads : ThreadLoad(t)
       \/ \E t \in AnimThreads : ThreadTick(t)

SpecAnim == AnimStart /\ [][AnimNext]_vars

\* the operating system runs every thread, and sleep returns
AnimFairness ==
    \A t \in AnimThreads :
        WF_animVars(ThreadLoad(t)) /\ WF_animVars(ThreadTick(t))

SpecAnimLive == AnimStart /\ [][AnimNext]_vars /\ AnimFairness

\* ------------------------------------------------------------------------
\* SpecHistory: the App handling history lines while overlays open and close
\* ------------------------------------------------------------------------
HistoryStart ==
    /\ BaseIdle /\ UsageIdle /\ WireIdle /\ Arg0Idle /\ AgentIdle
    /\ AnimIdle /\ HistoryInit

HistoryNext ==
    /\ UNCHANGED <<mgrVars, truncVars, sessVars, policyVars, usageVars,
                   wireVars, arg0Vars, agentVars, animVars>>
    /\ \/ InsertHistoryLines
       \/ InsertHistoryCell
       \/ DiffResult
       \/ OpenTranscript
       \/ CloseOverlay

SpecHistory == HistoryStart /\ [][HistoryNext]_vars

\* ------------------------------------------------------------------------
\* SpecPolicy: one tool call through the policy layer, over every turn
\* context and candidate action
\* ------------------------------------------------------------------------
ApprovalInit ==
    /\ MgrInit
    /\ TruncIdle
    /\ SessInit
    /\ WritableIdle
    /\ RootsIdle
    /\ AuxIdle
    /\ PolicyInit

PolicyNext ==
    /\ UNCHANGED <<mgrVars, truncVars, sessVars, writableVars, rootsVars, auxVars>>
    /\ \/ Consult
       \/ Answer
       \/ Exit
       \/ AnswerEscalation

SpecPolicy == ApprovalInit /\ [][PolicyNext]_vars

\* ========================================================================
\* Properties of the ConversationManager (checked under Spec)
\* ========================================================================
StepOf(p, from, to) == pc[p] = from /\ pc'[p] = to
SpawnCalls == {"new_conversation", "fork_conversation"}

\* C1: new_conversation / fork_conversation get past finalize_spawn's check
\* (and finally return Ok) only when the first event read is
\* SessionConfigured with id = INITIAL_SUBMIT_ID; when the first event is
\* any other message, or a SessionConfigured with another id, the call has
\* returned Err(SessionConfiguredNotFirstEvent).
C1_FirstEventDecides ==
    \A p \in Callers :
        LET good == event[p].msg = "session_configured"
                    /\ event[p].id = INITIAL_SUBMIT_ID
        IN  /\ pc[p] \in {"insert", "insert_locked"} => good
            /\ ret[p].kind = "NewConversation" => good
            /\ (event[p] # NoEvent /\ ~good) =>
                   /\ pc[p] = "idle"
                   /\ ret[p] = Err("SessionConfiguredNotFirstEvent", 0)

\* a call failed on a SessionConfigured event that carries the wrong id
C1_Witness ==
    \E p \in Callers :
        /\ ret[p] = Err("SessionConfiguredNotFirstEvent", 0)
        /\ event[p].msg = "session_configured"
        /\ event[p].id # INITIAL_SUBMIT_ID
        /\ call[p].op \in SpawnCalls

\* C2: once new_conversation / fork_conversation has returned id c with a
\* handle, and until remove_conversation(c) is executed, get_conversation(c)
\* yields that same handle, whatever the other callers do with other ids.
C2_GetReturnsSameHandle ==
    \A c \in DOMAIN returned :
        MapGet(conversations, c) = OkConversation(returned[c])

\* a get_conversation(c) has just returned the handle of a live conversation
\* while another conversation is registered too
C2_Witness ==
    \E p \in Callers :
        /\ pc[p] = "idle"
        /\ call[p].op = "get_conversation"
        /\ ret[p].kind = "Conversation"
        /\ ret[p].conversation.session_id \in DOMAIN returned
        /\ Cardinality(DOMAIN returned) >= 2

\* C3: a get_conversation(id) whose id is not in the map returns
\* Err(ConversationNotFound(id)) and leaves the manager as it was: the map
\* and the issued ids are unchanged and the caller no longer holds the lock.
C3_LookupMissStep(p) ==
    /\ (StepOf(p, "idle", "get_locked") =>
            /\ conversations' = conversations
            /\ lock' = [lock EXCEPT !.readers = @ \cup {p}])
    /\ (StepOf(p, "get_locked", "idle")
        /\ call[p].id \notin DOMAIN conversations) =>
            /\ ret'[p] = Err("ConversationNotFound", call[p].id)
            /\ conversations' = conversations
            /\ issued' = issued
            /\ lock' = [lock EXCEPT !.readers = @ \ {p}]
            /\ \A q \in Callers \ {p} : pc'[q] = pc[q] /\ ret'[q] = ret[q]

\* C3, over every step of every caller
C3_LookupMissIsNonFatal == [][\A p \in Callers : C3_LookupMissStep(p)]_vars

\* a lookup has missed while the map holds another conversation
C3_Witness ==
    \E p \in Callers :
        /\ pc[p] = "idle"
        /\ ret[p].kind = "Err"
        /\ ret[p].err = "ConversationNotFound"
        /\ ret[p].id \notin DOMAIN conversations
        /\ DOMAIN conversations # {}

\* C4: remove_conversation(c) removes exactly the entry of c: afterwards a
\* lookup of c misses, every other entry is as before, and when c was not in
\* the map nothing changes; it returns () in every case.
C4_RemoveStep(p) ==
    StepOf(p, "remove_locked", "idle") =>
        LET c == call[p].id
        IN  /\ DOMAIN conversations' = DOMAIN conversations \ {c}
            /\ \A k \in DOMAIN conversations' :
                   conversations'[k] = conversations[k]
            /\ MapGet(conversations', c) = Err("ConversationNotFound", c)
            /\ (c \notin DOMAIN conversations =>
                    conversations' = conversations)
            /\ ret'[p] = OkUnit

\* C4, over every step of every caller
C4_RemoveExactlyOne == [][\A p \in Callers : C4_RemoveStep(p)]_vars

\* a remove has returned; the conversation the other caller was given is
\* gone from the map and another conversation is still in it
C4_Witness ==
    \E p \in Callers, q \in Callers :
        /\ p # q
        /\ pc[p] = "idle"
        /\ call[p].op = "remove_conversation"
        /\ ret[p] = OkUnit
        /\ ret[q].kind = "NewConversation"
        /\ ret[q].conversation_id \notin DOMAIN conversations
        /\ DOMAIN conversations # {}

\* C5: fork_conversation(history, n, config) spawns a session whose initial
\* history is truncate_after_dropping_last_messages(history, n) and inserts
\* it under the returned conversation_id; that id is not in the map before
\* the insert, and every entry the map had stays as it was.
C5_ForkStep(p) ==
    /\ (StepOf(p, "spawn", "next_event")
        /\ call[p].op = "fork_conversation") =>
            /\ codex'[p].initial_history =
                 <<truncate_after_dropping_last_messages(call[p].history,
                                                         call[p].n)>>
            /\ codex'[p].session_id \notin DOMAIN conversations
            /\ conversations' = conversations
    /\ (call[p].op = "fork_conversation" /\ pc'[p] # pc[p]
        /\ pc[p] # "insert_locked") => conversations' = conversations
    /\ (StepOf(p, "insert_locked", "idle")
        /\ call[p].op = "fork_conversation") =>
            LET id == ret'[p].conversation_id
            IN  /\ ret'[p].kind = "NewConversation"
                /\ id = codex[p].session_id
                /\ ret'[p].conversation.session_id = id
                /\ id \notin DOMAIN conversations
                /\ DOMAIN conversations' = DOMAIN conversations \cup {id}
                /\ conversations'[id] = ret'[p].conversation
                /\ \A k \in DOMAIN conversations :
                       conversations'[k] = conversations[k]

\* C5, over every step of every caller
C5_ForkRegistersFresh == [][\A p \in Callers : C5_ForkStep(p)]_vars

\* a fork has returned its conversation next to an older one
C5_Witness ==
    \E p \in Callers :
        /\ pc[p] = "idle"
        /\ call[p].op = "fork_conversation"
        /\ ret[p].kind = "NewConversation"
        /\ ret[p].conversation_id \in DOMAIN conversations
        /\ Cardinality(DOMAIN conversations) = 2

\* C6: the lock on the map is held only by a caller that is at its single
\* map operation (lookup, insert or remove): a caller that is spawning a
\* session, awaiting its first event or waiting for the lock holds nothing,
\* so when all callers are in such places the lock is free.
NotAtMapOp == {"idle", "spawn", "next_event", "insert"}

\* C6: lock holders are at their map operation; callers elsewhere hold nothing
C6_LockOnlyAroundMapOp ==
    /\ \A p \in Callers :
         /\ lock.writer = p => pc[p] \in {"insert_locked", "remove_locked"}
         /\ p \in lock.readers => pc[p] = "get_locked"
         /\ pc[p] \in NotAtMapOp => lock.writer # p /\ p \notin lock.readers
    /\ (\A p \in Callers : pc[p] \in NotAtMapOp) => lock = Unlocked

\* one caller is inside a session start-up while another holds the lock for
\* its lookup or its remove
C6_Witness ==
    \E p, q \in Callers :
        /\ pc[p] \in {"spawn", "next_event"}
        /\ pc[q] \in {"get_locked", "remove_locked"}

\* C9 (as stated): the history fork_conversation hands to Codex::spawn is the
\* transcript without its last n user/assistant messages (and what follows
\* them): assistant messages count like user messages.
UserOrAssistantAt(h) ==
    {i \in 1..Len(h) : h[i].type = "message"
                       /\ h[i].role \in {"user", "assistant"}}
UserAt(h) ==
    {i \in 1..Len(h) : h[i].type = "message" /\ h[i].role = "user"}

\* the prefix before the n-th last index of `at` (all of h for n = 0,
\* nothing when `at` has fewer than n indices)
PrefixBeforeNthLast(h, at, n) ==
    IF n = 0 THEN h
    ELSE IF Cardinality(at) < n THEN <<>>
    ELSE LET k == CHOOSE i \in at : Cardinality({j \in at : j >= i}) = n
         IN  SubSeq(h, 1, k - 1)

C7_TruncateMatchesReference ==
    (t_pc # "input" /\ t_n >= 1) =>
        LET users == {i \in 1..Len(t_items) :
                        t_items[i].type = "message"
                        /\ t_items[i].role = "user"}
        IN  IF Cardinality(users) < t_n
            THEN t_out = <<>>
            ELSE \E k \in users :
                   /\ Cardinality({j \in users : j >= k}) = t_n
                   /\ t_out = [i \in 1..(k - 1) |-> t_items[i]]

\* a cut in the middle: something is kept and a non-user item after the cut
\* is dropped
C7_Witness ==
    /\ t_pc = "truncated"
    /\ t_n = 1
    /\ Len(t_items) = 3
    /\ Len(t_out) = 1
    /\ t_items[3].type # "message"

\* C8: with n = 0 the result is the input itself, and for every input and
\* n >= 0, truncate(items, n) = truncate(truncate(items, n), 0).
C8_ZeroIsIdentity ==
    /\ (t_pc # "input" /\ t_n = 0) => t_out = t_items
    /\ t_pc = "again" => t_out0 = t_out

\* the law on a result that is neither empty nor the whole input
C8_Witness ==
    /\ t_pc = "again"
    /\ t_n >= 1
    /\ t_out0 # <<>>
    /\ Len(t_out0) < Len(t_items)

UserMessages(items) ==
    Cardinality({i \in 1..Len(items) : IsUserMessage(items[i])})

\* C40: for every item list and every n, the result of
\* truncate_after_dropping_last_messages is a prefix of the input (same
\* items, same order, never longer); when the input has U >= n >= 1 user
\* messages the result contains exactly U - n user messages and the first
\* dropped item is a user message.
C40_PrefixDroppingNUserMessages ==
    t_pc # "input" =>
        /\ Len(t_out) <= Len(t_items)
        /\ t_out = SubSeq(t_items, 1, Len(t_out))
        /\ (t_n >= 1 /\ UserMessages(t_items) >= t_n) =>
               /\ UserMessages(t_out) = UserMessages(t_items) - t_n
               /\ Len(t_out) < Len(t_items)
               /\ IsUserMessage(t_items[Len(t_out) + 1])

\* two user messages, the last one dropped together with what follows it:
\* one user message and the item before the cut are kept
C40_Witness ==
    /\ t_pc = "truncated"
    /\ t_n = 1
    /\ UserMessages(t_items) = 2
    /\ Len(t_items) = 3
    /\ Len(t_out) = 1
    /\ ~IsUserMessage(t_items[3])

\* ========================================================================
\* Properties of the session's events (checked under SpecSession)
\* ========================================================================
\* C10: for every turn submission id, the events emitted for that id hold at
\* most one terminal event (TaskComplete, TurnAborted or Error) and nothing
\* after it; a turn that has started and is no longer in flight has exactly
\* one, and it is the last event of its id.
C10_OneTerminalPerTurn ==
    \A id \in DOMAIN submitted :
        submitted[id] \in TurnOps =>
            /\ emitted[id].terminals <= 1
            /\ ~emitted[id].late
            /\ emitted[id].terminals = 1 =>
                   emitted[id].last \in TerminalMsgs
            /\ (emitted[id].started >= 1 /\ current_turn.id # id) =>
                   emitted[id].terminals = 1
            /\ (current_turn.id = id) => emitted[id].terminals = 0

\* three turns have ended, one by each kind of terminal event
C10_Witness ==
    \E a, b, c \in DOMAIN submitted :
        /\ emitted[a].last = "task_complete"
        /\ emitted[b].last = "turn_aborted"
        /\ emitted[c].last = "error"
        /\ current_turn = NoTurn

TurnIds == {id \in DOMAIN submitted : submitted[id] \in TurnOps}
EndMsgs == {EndMsg(k) : k \in ToolKinds}

\* C11: for every turn id, TaskStarted comes before every other event of the
\* id and the terminal event comes after all of them; once TurnAborted has
\* been emitted for a turn id, no further event with that id is emitted.
C11_TurnEventsOrdered ==
    \A id \in TurnIds :
        LET e == emitted[id]
        IN  /\ ~e.early
            /\ ~e.late
            /\ e.started <= 1
            /\ e.last # "none" => e.started = 1
            /\ e.reason # "none" => e.last = "turn_aborted"

\* a turn was aborted while its command was running and had written
\* output; a later turn has emitted events since, the aborted one none
C11_Witness ==
    \E id \in TurnIds :
        /\ emitted[id].last = "turn_aborted"
        /\ \E c \in calls.open :
               c.call_id[1] = id /\ c.kind = "exec_command"
        /\ current_turn.id > id
        /\ emitted[current_turn.id].last = "exec_command_output_delta"

\* C12: every *Begin with call_id c is matched by exactly one *End of the
\* same tool with the same c, unless the turn is aborted, and then
\* TurnAborted is the turn's last event; an *End never comes without an
\* earlier matching *Begin. (A call with a *Begin and no *End is the one
\* running now or one of an aborted turn.)
C12_BeginEndPaired ==
    /\ ~calls.unpaired
    /\ \A c \in calls.open :
           \/ /\ current_turn.phase = "tool"
              /\ c = Call(current_turn.call_id, current_turn.kind)
           \/ emitted[c.call_id[1]].last = "turn_aborted"

\* one turn was aborted with its call running, a later turn's call has
\* begun and ended
C12_Witness ==
    /\ \E c \in calls.open : emitted[c.call_id[1]].last = "turn_aborted"
    /\ current_turn # NoTurn
    /\ emitted[current_turn.id].last \in EndMsgs
    /\ \A c \in calls.open : c.call_id[1] # current_turn.id

\* C13: a UserTurn handled while another turn is running emits
\* TurnAborted{Replaced} for the running turn before the TaskStarted of the
\* new one; at no time have two turns of the session started and not ended.
C13_ReplacedBeforeStart ==
    [][/\ \A id \in SubIds : ~emitted'[id].overlap
       /\ Running(emitted') \subseteq {current_turn'.id}
       /\ (/\ current_turn # NoTurn
           /\ current_turn' # NoTurn
           /\ current_turn'.id # current_turn.id)
          => /\ emitted'[current_turn.id].last = "turn_aborted"
             /\ emitted'[current_turn.id].reason = "replaced"
             /\ emitted'[current_turn.id].terminals = 1
             /\ emitted'[current_turn'.id].last = "task_started"]_vars

\* a turn was replaced, and the turn that replaced it is running a tool call
C13_Witness ==
    \E id \in TurnIds :
        /\ emitted[id].reason = "replaced"
        /\ emitted[id].last = "turn_aborted"
        /\ current_turn.id > id
        /\ current_turn.phase = "tool"

\* the step that takes an Interrupt off the submission queue
InterruptTaken ==
    \E i \in 1..Len(submissions) :
        /\ submissions[i].op = "interrupt"
        /\ submissions' = Without(submissions, i)

UnknownApprovalHandled ==
    /\ loop_running
    /\ submissions # <<>>
    /\ Head(submissions).op \in ApprovalOps
    /\ Head(submissions).target \notin pending_approvals
    /\ submissions' = Tail(submissions)

\* C15: an ExecApproval or PatchApproval whose id matches no waiter emits an
\* Error event (under the approval's own id) and gives the decision to
\* nobody: the turn in flight, the waiters and the tool calls stay as they
\* were and the turn loop goes on.
C15_UnknownApprovalIsError ==
    [][UnknownApprovalHandled
          => /\ emitted'[Head(submissions).id].last = "error"
             /\ \A id \in SubIds \ {Head(submissions).id} :
                    emitted'[id] = emitted[id]
             /\ UNCHANGED <<current_turn, pending_approvals, calls>>
             /\ loop_running']_vars

\* an approval naming an id without a waiter was answered with Error, and a
\* UserTurn submitted after it was started
C15_Witness ==
    \E a, b \in DOMAIN submitted :
        /\ a < b
        /\ submitted[a] \in ApprovalOps
        /\ emitted[a].last = "error"
        /\ submitted[b] = "user_turn"
        /\ emitted[b].started = 1

\* C16: when the model stream fails MAX_STREAM_ATTEMPTS times in a row the
\* turn is over: that many StreamError events stand right before one Error,
\* no TurnAborted is emitted for the turn and nothing follows the Error.
C16_FiveStreamErrorsThenError ==
    \A id \in TurnIds :
        LET e == emitted[id]
        IN  /\ e.last = "error" =>
                   /\ e.run_at_error = MAX_STREAM_ATTEMPTS
                   /\ e.terminals = 1
                   /\ e.reason = "none"
                   /\ ~e.late
            /\ current_turn.id = id =>
                   /\ e.run = current_turn.errors
                   /\ e.run < MAX_STREAM_ATTEMPTS
            /\ e.run_at_error # 0 => e.last = "error"

\* a turn gave up after its stream had failed again and again, and the next
\* turn is running
C16_Witness ==
    \E id \in TurnIds :
        /\ emitted[id].last = "error"
        /\ emitted[id].run_at_error = MAX_STREAM_ATTEMPTS
        /\ current_turn.id > id
        /\ emitted[current_turn.id].last = "agent_message_delta"

\* ------------------------------------------------------------------------
\* WritableRoot and the derivation of the writable roots
\* ------------------------------------------------------------------------
\* p equals `base` or lies below it
Descends(p, base) ==
    Len(base) <= Len(p) /\ SubSeq(p, 1, Len(base)) = base

\* C18: w.is_path_writable(p) is true if and only if p descends from (or
\* equals) w.root and descends from (or equals) none of
\* w.read_only_subpaths.
C18_WritableIffUnderRootOnly ==
    w_pc = "checked" =>
        (w_result <=>
            /\ Descends(w_path, w_root.root)
            /\ \A i \in 1..Len(w_root.read_only_subpaths) :
                   ~Descends(w_path, w_root.read_only_subpaths[i]))

\* a path below the root is writable although the root has read-only
\* subpaths below it
C18_Witness ==
    /\ w_pc = "checked"
    /\ w_result
    /\ w_path # w_root.root
    /\ Len(w_root.read_only_subpaths) = MaxSubpaths
    /\ \A i \in 1..Len(w_root.read_only_subpaths) :
           /\ Descends(w_root.read_only_subpaths[i], w_root.root)
           /\ w_root.read_only_subpaths[i] # w_root.root

RootsOf(ws) == {ws[i].root : i \in 1..Len(ws)}
Derived == r_pc \in {"derived", "probed"}
DerivedWorkspaceWrite == Derived /\ r_policy.mode = "workspace-write"

\* C19: get_writable_roots_with_cwd returns no roots for DangerFullAccess
\* and for ReadOnly; for WorkspaceWrite the result contains cwd and every
\* configured writable root, whatever the exclude flags are.
C19_CwdAndConfiguredRootsAlways ==
    /\ (Derived /\ r_policy.mode \in {"danger-full-access", "read-only"})
           => r_roots = <<>>
    /\ DerivedWorkspaceWrite =>
           /\ r_cwd \in RootsOf(r_roots)
           /\ \A i \in 1..Len(r_policy.writable_roots) :
                  r_policy.writable_roots[i] \in RootsOf(r_roots)

\* both exclude flags set: cwd and a configured root are the roots
C19_Witness ==
    /\ DerivedWorkspaceWrite
    /\ r_policy.exclude_tmpdir_env_var
    /\ r_policy.exclude_slash_tmp
    /\ Len(r_policy.writable_roots) >= 1
    /\ r_policy.writable_roots[1] # r_cwd
    /\ RootsOf(r_roots) = {r_cwd, r_policy.writable_roots[1]}

Count(x, seq) == Cardinality({i \in 1..Len(seq) : seq[i] = x})

\* how often /tmp is among the derived roots, and how often the other
\* rules (configured roots, cwd, TMPDIR) put it there
SlashTmpCount ==
    Cardinality({i \in 1..Len(r_roots) : r_roots[i].root = SlashTmp})
SlashTmpFromOtherRules ==
    Count(SlashTmp, r_policy.writable_roots)
    + (IF r_cwd = SlashTmp THEN 1 ELSE 0)
    + (IF /\ ~r_policy.exclude_tmpdir_env_var
          /\ r_env.tmpdir.set
          /\ ~r_env.tmpdir.empty
          /\ r_env.tmpdir.path = SlashTmp
       THEN 1 ELSE 0)
DerivedOnPosix == DerivedWorkspaceWrite /\ r_env.unix

\* C20 (as stated): on POSIX, for WorkspaceWrite, /tmp is among the derived
\* roots whenever exclude_slash_tmp is false, and is not added by this rule
\* when exclude_slash_tmp is true.
C20_SlashTmpWheneverNotExcluded ==
    DerivedOnPosix =>
        IF r_policy.exclude_slash_tmp
        THEN SlashTmpCount = SlashTmpFromOtherRules
        ELSE SlashTmp \in RootsOf(r_roots)

\* C20 (amended): on POSIX, for WorkspaceWrite, the /tmp rule adds /tmp
\* exactly when exclude_slash_tmp is false and /tmp is a directory; when
\* exclude_slash_tmp is true or /tmp is not a directory it adds nothing.
C20_SlashTmpWhenDirectory ==
    DerivedOnPosix =>
        IF ~r_policy.exclude_slash_tmp /\ is_dir(r_env, SlashTmp)
        THEN /\ SlashTmp \in RootsOf(r_roots)
             /\ SlashTmpCount = SlashTmpFromOtherRules + 1
        ELSE SlashTmpCount = SlashTmpFromOtherRules

\* /tmp is a directory and not excluded: the rule alone makes it a root
C20_Witness ==
    /\ DerivedOnPosix
    /\ ~r_policy.exclude_slash_tmp
    /\ is_dir(r_env, SlashTmp)
    /\ SlashTmpFromOtherRules = 0
    /\ SlashTmp \in RootsOf(r_roots)

\* how often the TMPDIR rule's path is among the derived roots, and how
\* often the other rules (configured roots, cwd, /tmp) put it there
SlashTmpRuleAdds ==
    r_env.unix /\ ~r_policy.exclude_slash_tmp /\ is_dir(r_env, SlashTmp)
TmpdirSetNonEmpty == r_env.tmpdir.set /\ ~r_env.tmpdir.empty
TmpdirValue == IF TmpdirSetNonEmpty THEN r_env.tmpdir.path ELSE <<>>
TmpdirValueCount ==
    Cardinality({i \in 1..Len(r_roots) : r_roots[i].root = TmpdirValue})
TmpdirValueFromOtherRules ==
    Count(TmpdirValue, r_policy.writable_roots)
    + (IF r_cwd = TmpdirValue THEN 1 ELSE 0)
    + (IF SlashTmpRuleAdds /\ TmpdirValue = SlashTmp THEN 1 ELSE 0)

\* C21: for WorkspaceWrite, the value of TMPDIR is added as a writable root
\* if and only if TMPDIR is set, non-empty and exclude_tmpdir_env_var is
\* false: then it is the last root and the rule adds it once; otherwise the
\* rule adds no root at all.
C21_TmpdirIffSetNonEmptyNotExcluded ==
    DerivedWorkspaceWrite =>
        IF TmpdirSetNonEmpty /\ ~r_policy.exclude_tmpdir_env_var
        THEN /\ r_roots[Len(r_roots)].root = r_env.tmpdir.path
             /\ TmpdirValueCount = TmpdirValueFromOtherRules + 1
        ELSE /\ TmpdirValueCount = TmpdirValueFromOtherRules
             /\ Len(r_roots) =
                    Len(r_policy.writable_roots) + 1
                    + (IF SlashTmpRuleAdds THEN 1 ELSE 0)

\* TMPDIR=/var is set and not excluded: the rule alone makes /var a root
C21_Witness ==
    /\ DerivedWorkspaceWrite
    /\ ~r_policy.exclude_tmpdir_env_var
    /\ r_env.tmpdir = TmpdirIs(<<"var">>)
    /\ TmpdirValueFromOtherRules = 0
    /\ <<"var">> \in RootsOf(r_roots)

Probed == r_pc = "probed"
GitOf(w) == Join(w.root, ".git")

CwdGitPaths ==
    {p \in GitProbes(r_cwd) : Descends(p, Join(r_cwd, ".git"))}

\* C39: under WorkspaceWrite with a cwd whose .git is a directory, no path
\* at or under cwd/.git is writable through any root returned by
\* get_writable_roots_with_cwd (is_path_writable is false for every returned
\* root), whatever the configured writable_roots, /tmp and TMPDIR are,
\* including roots that are ancestors of cwd or lie inside cwd/.git.
C39_CwdGitNeverWritable ==
    (/\ Probed
     /\ r_policy.mode = "workspace-write"
     /\ is_dir(r_env, Join(r_cwd, ".git")))
        => \A i \in 1..Len(r_roots) : r_probe[i] \cap CwdGitPaths = {}

\* cwd is /proj, /proj/.git is a directory and / is a configured root: the
\* root /proj refuses /proj/.git/hooks, the root / lets it be written
C39_Witness ==
    /\ Probed
    /\ r_cwd = <<"proj">>
    /\ is_dir(r_env, <<"proj", ".git">>)
    /\ \E i, j \in 1..Len(r_roots) :
           /\ r_roots[i].root = <<>>
           /\ <<"proj", ".git", "hooks">> \in r_probe[i]
           /\ r_roots[j].root = <<"proj">>
           /\ <<"proj", ".git", "hooks">> \notin r_probe[j]

\* ------------------------------------------------------------------------
\* TokenUsage (checked under SpecUsage)
\* ------------------------------------------------------------------------
ReturnedFrom(fn) == u_pc = "returned" /\ u_call.fn = fn

\* C23: percent_of_context_window_remaining(context_window, baseline) lies
\* in [0, 100] for every TokenUsage and every pair of arguments, and is 0
\* whenever context_window <= baseline; it neither panics on an underflow
\* nor divides by zero.
C23_PercentInRange ==
    ReturnedFrom("percent_of_context_window_remaining") =>
        /\ ~u_ret.panic
        /\ ~u_ret.div_by_zero
        /\ u_ret.value \in 0..100
        /\ u_call.context_window <= u_call.baseline_used_tokens
               => u_ret.value = 0

\* a window above the baseline, partly used: a percentage strictly between
\* 0 and 100
C23_Witness ==
    /\ ReturnedFrom("percent_of_context_window_remaining")
    /\ u_call.context_window = U64Max
    /\ u_call.baseline_used_tokens > 0
    /\ tokens_in_context_window(u_call.usage) > u_call.baseline_used_tokens
    /\ u_ret.value > 0
    /\ u_ret.value < 100

\* C24: for every TokenUsage (absent optional fields counted as 0)
\* non_cached_input = input - cached_input, blended_total =
\* non_cached_input + output and tokens_in_context_window = total -
\* reasoning_output, each computed without wrapping below 0 or above the
\* largest u64: a difference below 0 is 0, and a sum is the sum.
C24_DerivedWithoutWrapping ==
    LET usage == u_call.usage
        input_less_cached == usage.input_tokens - cached_input(usage)
        total_less_reasoning ==
            usage.total_tokens - unwrap_or(usage.reasoning_output_tokens, 0)
        AtLeastZero(x) == IF x < 0 THEN 0 ELSE x
    IN  /\ ReturnedFrom("non_cached_input") =>
               u_ret = Returned(AtLeastZero(input_less_cached))
        /\ ReturnedFrom("blended_total") =>
               u_ret = Returned(AtLeastZero(input_less_cached)
                                + usage.output_tokens)
        /\ ReturnedFrom("tokens_in_context_window") =>
               u_ret = Returned(AtLeastZero(total_less_reasoning))

\* the largest input and one output token: blended_total panics, or comes
\* back with the wrapped sum 0
C24_Witness ==
    /\ ReturnedFrom("blended_total")
    /\ u_call.usage.input_tokens = U64Max
    /\ u_call.usage.cached_input_tokens = None
    /\ u_call.usage.output_tokens = 1
    /\ u_ret.panic \/ u_ret.value = 0

\* ------------------------------------------------------------------------
\* Events on the wire (checked under SpecWire)
\* ------------------------------------------------------------------------
Asked_is_success == x_pc = "asked"
ResultOf(value) == value.v.msg.payload.result

\* C25: McpToolCallEndEvent.is_success() is true if and only if the adapter
\* returned a structured result (Ok) that is not flagged as an error: Err
\* gives false, Ok with is_error = true gives false, Ok with is_error =
\* false or absent gives true.
C25_SuccessIffOkNotError ==
    Asked_is_success =>
        LET result == ResultOf(x_value)
        IN  /\ ~IsOk(result) => ~x_success
            /\ (IsOk(result) /\ result.Ok.is_error = Some(TRUE))
                   => ~x_success
            /\ (IsOk(result) /\ result.Ok.is_error \in {Some(FALSE), None})
                   => x_success

\* a structured result without the is_error flag counts as a success
C25_Witness ==
    /\ Asked_is_success
    /\ IsOk(ResultOf(x_value))
    /\ ResultOf(x_value).Ok.is_error = None
    /\ x_success

\* the Op tags and the EventMsg tags of the spec's wire section
SpecOpTags ==
    {<<"i", "n", "t", "e", "r", "r", "u", "p", "t">>,
     <<"u", "s", "e", "r", "_", "i", "n", "p", "u", "t">>,
     <<"u", "s", "e", "r", "_", "t", "u", "r", "n">>,
     <<"o", "v", "e", "r", "r", "i", "d", "e", "_", "t", "u", "r", "n", "_", "c", "o", "n", "t", "e", "x", "t">>,
     <<"e", "x", "e", "c", "_", "a", "p", "p", "r", "o", "v", "a", "l">>,
     <<"p", "a", "t", "c", "h", "_", "a", "p", "p", "r", "o", "v", "a", "l">>,
     <<"a", "d", "d", "_", "t", "o", "_", "h", "i", "s", "t", "o", "r", "y">>,
     <<"g", "e", "t", "_", "h", "i", "s", "t", "o", "r", "y", "_", "e", "n", "t", "r", "y", "_", "r", "e", "q", "u", "e", "s", "t">>,
     <<"g", "e", "t", "_", "h", "i", "s", "t", "o", "r", "y">>,
     <<"l", "i", "s", "t", "_", "m", "c", "p", "_", "t", "o", "o", "l", "s">>,
     <<"l", "i", "s", "t", "_", "c", "u", "s", "t", "o", "m", "_", "p", "r", "o", "m", "p", "t", "s">>,
     <<"c", "o", "m", "p", "a", "c", "t">>,
     <<"s", "h", "u", "t", "d", "o", "w", "n">>}
SpecEventMsgTags ==
    {<<"e", "r", "r", "o", "r">>,
     <<"t", "a", "s", "k", "_", "s", "t", "a", "r", "t", "e", "d">>,
     <<"t", "a", "s", "k", "_", "c", "o", "m", "p", "l", "e", "t", "e">>,
     <<"t", "o", "k", "e", "n", "_", "c", "o", "u", "n", "t">>,
     <<"a", "g", "e", "n", "t", "_", "m", "e", "s", "s", "a", "g", "e">>,
     <<"a", "g", "e", "n", "t", "_", "m", "e", "s", "s", "a", "g", "e", "_", "d", "e", "l", "t", "a">>,
     <<"a", "g", "e", "n", "t", "_", "r", "e", "a", "s", "o", "n", "i", "n", "g">>,
     <<"a", "g", "e", "n", "t", "_", "r", "e", "a", "s", "o", "n", "i", "n", "g", "_", "d", "e", "l", "t", "a">>,
     <<"a", "g", "e", "n", "t", "_", "r", "e", "a", "s", "o", "n", "i", "n", "g", "_", "r", "a", "w", "_", "c", "o", "n", "t", "e", "n", "t">>,
     <<"a", "g", "e", "n", "t", "_", "r", "e", "a", "s", "o", "n", "i", "n", "g", "_", "r", "a", "w", "_", "c", "o", "n", "t", "e", "n", "t", "_", "d", "e", "l", "t", "a">>,
     <<"a", "g", "e", "n", "t", "_", "r", "e", "a", "s", "o", "n", "i", "n", "g", "_", "s", "e", "c", "t", "i", "o", "n", "_", "b", "r", "e", "a", "k">>,
     <<"s", "e", "s", "s", "i", "o", "n", "_", "c", "o", "n", "f", "i", "g", "u", "r", "e", "d">>,
     <<"m", "c", "p", "_", "t", "o", "o", "l", "_", "c", "a", "l", "l", "_", "b", "e", "g", "i", "n">>,
     <<"m", "c", "p", "_", "t", "o", "o", "l", "_", "c", "a", "l", "l", "_", "e", "n", "d">>,
     <<"w", "e", "b", "_", "s", "e", "a", "r", "c", "h", "_", "b", "e", "g", "i", "n">>,
     <<"w", "e", "b", "_", "s", "e", "a", "r", "c", "h", "_", "e", "n", "d">>,
     <<"e", "x", "e", "c", "_", "c", "o", "m", "m", "a", "n", "d", "_", "b", "e", "g", "i", "n">>,
     <<"e", "x", "e", "c", "_", "c", "o", "m", "m", "a", "n", "d", "_", "o", "u", "t", "p", "u", "t", "_", "d", "e", "l", "t", "a">>,
     <<"e", "x", "e", "c", "_", "c", "o", "m", "m", "a", "n", "d", "_", "e", "n", "d">>,
     <<"e", "x", "e", "c", "_", "a", "p", "p", "r", "o", "v", "a", "l", "_", "r", "e", "q", "u", "e", "s", "t">>,
     <<"a", "p", "p", "l", "y", "_", "p", "a", "t", "c", "h", "_", "a", "p", "p", "r", "o", "v", "a", "l", "_", "r", "e", "q", "u", "e", "s", "t">>,
     <<"b", "a", "c", "k", "g", "r", "o", "u", "n", "d", "_", "e", "v", "e", "n", "t">>,
     <<"s", "t", "r", "e", "a", "m", "_", "e", "r", "r", "o", "r">>,
     <<"p", "a", "t", "c", "h", "_", "a", "p", "p", "l", "y", "_", "b", "e", "g", "i", "n">>,
     <<"p", "a", "t", "c", "h", "_", "a", "p", "p", "l", "y", "_", "e", "n", "d">>,
     <<"t", "u", "r", "n", "_", "d", "i", "f", "f">>,
     <<"g", "e", "t", "_", "h", "i", "s", "t", "o", "r", "y", "_", "e", "n", "t", "r", "y", "_", "r", "e", "s", "p", "o", "n", "s", "e">>,
     <<"m", "c", "p", "_", "l", "i", "s", "t", "_", "t", "o", "o", "l", "s", "_", "r", "e", "s", "p", "o", "n", "s", "e">>,
     <<"l", "i", "s", "t", "_", "c", "u", "s", "t", "o", "m", "_", "p", "r", "o", "m", "p", "t", "s", "_", "r", "e", "s", "p", "o", "n", "s", "e">>,
     <<"p", "l", "a", "n", "_", "u", "p", "d", "a", "t", "e">>,
     <<"t", "u", "r", "n", "_", "a", "b", "o", "r", "t", "e", "d">>,
     <<"s", "h", "u", "t", "d", "o", "w", "n", "_", "c", "o", "m", "p", "l", "e", "t", "e">>,
     <<"c", "o", "n", "v", "e", "r", "s", "a", "t", "i", "o", "n", "_", "h", "i", "s", "t", "o", "r", "y">>}

Encoded(kind) == x_pc = "encoded" /\ x_value.kind = kind /\ x_json.ok
TagsOf(variants) == {TagOf(variants[i]) : i \in 1..Len(variants)}
Letters(tag) == SelectSeq(tag, LAMBDA ch : ch # "_")
CountIn(set, seq) == Cardinality({i \in 1..Len(seq) : seq[i] \in set})
\* the tag is the variant's name in lower snake case
IsLowerSnakeOf(tag, name) ==
    /\ Letters(tag) = lowercase(name)
    /\ CountIn({"_"}, tag) = CountIn(Upper, name) - 1
    /\ \A i \in 1..Len(tag) :
           tag[i] = "_" =>
               /\ i > 1 /\ i < Len(tag)
               /\ name[i - CountIn({"_"}, SubSeq(tag, 1, i)) + 1] \in Upper
\* the fields of the variant that are written: all but the skipped ones
WrittenFields(variant, payload) ==
    {variant.fields[i].name : i \in OnWire(variant.fields, payload)}

\* C26: every Event encodes as one JSON object {"id": ..., "msg": {"type":
\* <tag>, <payload fields inline>}} with a single level of nesting; the tag
\* is the lower-snake-case variant name, the tags of distinct Op variants
\* and of distinct EventMsg variants are pairwise distinct, and they are
\* exactly the tags listed in the spec's wire section.
C26_EventShapeAndTags ==
    /\ Encoded("event") =>
           LET sent == x_value.v
               variant == VariantNamed(EventMsgEnum, sent.msg.name)
               json == x_json.json
               msg == json.members["msg"]
           IN  /\ json.j = "object"
               /\ DOMAIN json.members = {"id", "msg"}
               /\ json.members["id"] = JStr(sent.id)
               /\ msg.j = "object"
               /\ DOMAIN msg.members =
                      {"type"} \cup WrittenFields(variant, sent.msg.payload)
               /\ msg.members["type"].j = "string"
               /\ IsLowerSnakeOf(msg.members["type"].s, sent.msg.name)
               /\ msg.members["type"].s \in SpecEventMsgTags
    /\ Encoded("submission") =>
           LET op == x_json.json.members["op"].members["type"]
           IN  /\ IsLowerSnakeOf(op.s, x_value.v.op.name)
               /\ op.s \in SpecOpTags
    /\ x_pc # "off" =>
           /\ TagsOf(OpVariants) = SpecOpTags
           /\ TagsOf(EventMsgVariants) = SpecEventMsgTags
           /\ Cardinality(TagsOf(OpVariants)) = Len(OpVariants)
           /\ Cardinality(TagsOf(EventMsgVariants)) = Len(EventMsgVariants)

\* the SessionConfigured event of tests::serialize_event, encoded
C26_Witness ==
    /\ Encoded("event")
    /\ x_json.json =
           JObj([id |-> JStr("s"),
                 msg |-> JObj([type |-> JStr(<<"s", "e", "s", "s", "i", "o", "n", "_", "c", "o", "n", "f", "i", "g", "u", "r", "e", "d">>),
                               session_id |-> JStr("s"),
                               model |-> JStr("s"),
                               history_log_id |-> JNum(0),
                               history_entry_count |-> JNum(0)])])

Decoded == x_pc = "decoded"

\* C27: wire round-trip: for every Submission and every Event value v,
\* decode(encode(v)) = v, including values whose optional fields are omitted
\* on the wire (OverrideTurnContext with absent fields, WorkspaceWrite with
\* empty writable_roots, approval requests without reason).
C27_RoundTrip ==
    /\ x_pc = "encoded" => x_json.ok
    /\ Decoded => x_back.ok /\ x_back.value = x_value.v

\* a McpToolCallBegin event whose invocation.arguments is Some(Value::Null)
\* comes back with arguments = None
C27_Witness ==
    /\ Decoded
    /\ x_value.kind = "event"
    /\ x_value.v.msg.name = McpToolCallBegin
    /\ x_value.v.msg.payload.invocation.arguments = Some(JNull)
    /\ x_back.ok
    /\ x_back.value.msg.payload.invocation.arguments = None

\* ------------------------------------------------------------------------
\* Process start-up (checked under SpecArg0)
\* ------------------------------------------------------------------------
DotenvLoaded == e_pc # "off" /\ e_next > 1
StartsWithCodex(name) == str_starts_with(name, ILLEGAL_ENV_VAR_PREFIX)
KeysOf(file) ==
    IF file = None THEN {}
    ELSE {file[1][i].key : i \in {j \in 1..Len(file[1]) : file[1][j].ok}}

\* C28: loading .env files never creates or modifies an environment
\* variable whose name starts with CODEX_: for every such name, its value
\* (or absence) after load_dotenv equals its value before, whatever the
\* .env files contain.
C28_DotenvNeverTouchesCodexVars ==
    \A name \in EnvNames :
        StartsWithCodex(name) => e_env[name] = e_env0[name]

\* a .env file names CODEX_HOME, which is unset, and after load_dotenv it
\* still is
C28_Witness ==
    /\ DotenvLoaded
    /\ CODEX_HOME \in KeysOf(e_files.home) \cup KeysOf(e_files.cwd)
    /\ e_env0[CODEX_HOME] = None
    /\ e_env[CODEX_HOME] = None

\* C29: every write to the process environment (the .env variables and the
\* PATH prepend) happens before the async runtime is created and before
\* main_fn or any task runs; after that point the environment is never
\* written again.
C29_EnvWrittenOnlyBeforeRuntime ==
    [][e_env' # e_env =>
           /\ ~e_runtime
           /\ ~e_runtime'
           /\ e_pc \notin {"main_fn", "exited"}
           /\ e_tasks = 0]_vars

\* main_fn runs with a task spawned, after a .env file has set PATH and the
\* directory was put in front of it
C29_Witness ==
    /\ e_pc = "main_fn"
    /\ e_runtime
    /\ e_tasks > 0
    /\ e_env0[PATH] = Some(<<"/bin">>)
    /\ PATH \in KeysOf(e_files.home) \cup KeysOf(e_files.cwd)
    /\ e_env[PATH] = Some(<<TempDirEntry, "a">>)

\* ------------------------------------------------------------------------
\* ConversationManager: start-up and failure of a session (checked under
\* Spec)
\* ------------------------------------------------------------------------
\* the sessions spawned by a call that has not returned yet
StartingUp(p) == pc[p] \in {"next_event", "insert", "insert_locked"}
StartingIds == {codex[p].session_id : p \in {q \in Callers : StartingUp(q)}}
SpawnOps == {"new_conversation", "fork_conversation"}

\* C37: a conversation becomes visible in the manager's map only after
\* finalize_spawn has consumed its SessionConfigured event: while a session
\* is starting up get_conversation(id) fails with ConversationNotFound, and
\* no handle obtained from get_conversation can ever receive that session's
\* SessionConfigured from next_event (the handle's session had its first
\* event taken before the handle could be looked up).
C37_VisibleOnlyAfterSessionConfigured ==
    /\ [](StartingIds \cap DOMAIN conversations = {})
    /\ [][\A id \in DOMAIN conversations' \ DOMAIN conversations :
              \E p \in Callers :
                  /\ pc[p] = "insert_locked"
                  /\ codex[p].session_id = id
                  /\ event[p] = [id |-> INITIAL_SUBMIT_ID,
                                 msg |-> "session_configured"]]_vars
    /\ [][\A q \in Callers :
              (pc[q] = "get_locked" /\ pc'[q] = "idle"
                   /\ call[q].id \in StartingIds)
                  => ret'[q] = Err("ConversationNotFound", call[q].id)]_vars
    /\ [](\A q \in Callers :
              ret[q].kind = "Conversation"
                  => ret[q].conversation.session_id \notin StartingIds)
    /\ [](DOMAIN conversations \subseteq DOMAIN returned)

\* a caller looked up the id of a session whose first event was already
\* taken but which is not inserted yet, and got ConversationNotFound
C37_Witness ==
    \E p, q \in Callers :
        /\ pc[p] = "insert"
        /\ event[p].msg = "session_configured"
        /\ pc[q] = "idle"
        /\ call[q].op = "get_conversation"
        /\ ret[q] = Err("ConversationNotFound", codex[p].session_id)

\* C38: when new_conversation or fork_conversation fails (spawn error,
\* next_event error, or SessionConfiguredNotFirstEvent), the manager's
\* conversation map is exactly what it was before the call: no entry is
\* inserted for the failed session and no existing entry is touched.
C38_FailedSpawnLeavesMap ==
    [][\A p \in Callers :
          /\ (pc'[p] # pc[p] /\ pc'[p] \in {"spawn", "next_event"})
                 => conversations' = conversations
          /\ (pc[p] \in {"spawn", "next_event"} /\ pc'[p] = "idle")
                 => /\ ret'[p].kind = "Err"
                    /\ call'[p].op \in SpawnOps
                    /\ conversations' = conversations
                    /\ codex[p].session_id \notin DOMAIN conversations']_vars

\* a fork failed with SessionConfiguredNotFirstEvent while the map held the
\* conversation created before it, and still holds exactly that one
C38_Witness ==
    \E p \in Callers :
        /\ pc[p] = "idle"
        /\ call[p].op = "fork_conversation"
        /\ ret[p] = Err("SessionConfiguredNotFirstEvent", 0)
        /\ Cardinality(issued) = 2
        /\ DOMAIN conversations = {1}
        /\ lock = Unlocked

\* ------------------------------------------------------------------------
\* The TUI agent (checked under SpecAgent)
\* ------------------------------------------------------------------------
SessionConfiguredDelivered ==
    Cardinality({i \in 1..Len(g_ui) : g_ui[i].msg = "session_configured"})
\* the agent's task holds the conversation and is past the send
PastSend == g_pc \in {"running", "stopped"} /\ g_next > 1

\* C30: for spawn_agent and spawn_agent_from_existing, the SessionConfigured
\* event is delivered to the UI exactly once, with id "", before any other
\* event of that conversation is forwarded and before any Op is submitted
\* to the conversation.  Where new_conversation fails there is no
\* conversation: nothing is delivered and nothing is submitted.
C30_SessionConfiguredFirstAndOnce ==
    /\ SessionConfiguredDelivered <= 1
    /\ PastSend => SessionConfiguredDelivered = 1
    /\ g_ui # <<>> => g_ui[1] = [id |-> "", msg |-> "session_configured"]
    /\ g_submitted # <<>> => SessionConfiguredDelivered = 1
    /\ g_pc = "failed" => g_ui = <<>> /\ g_submitted = <<>>

\* an Op sent before the agent held the conversation was submitted, and an
\* event of the conversation forwarded, both after the one SessionConfigured
C30_Witness ==
    /\ g_fn = "spawn_agent"
    /\ Len(g_ui) > 1
    /\ g_ui[1] = SessionConfiguredEv
    /\ g_ui[2].id = FakeId
    /\ g_submitted # <<>>
    /\ SessionConfiguredDelivered = 1

\* the events forwarded from the conversation: what the UI was sent apart
\* from the SessionConfigured event of the bootstrap
ForwardedEvents ==
    SelectSeq(g_ui, LAMBDA e : e.msg # "session_configured")

\* C31: each event returned by conversation.next_event() is forwarded to
\* the UI as AppEvent::CodexEvent exactly once and in the order returned
\* (no loss, duplication or reordering); forwarding stops permanently at
\* the first next_event error.
C31_EventsForwardedInOrderUntilError ==
    /\ [](ForwardedEvents \o g_cur = g_yielded)
    /\ [](g_pc = "stopped" => ForwardedEvents = g_yielded)
    /\ [][g_pc = "stopped" =>
              /\ g_pc' = "stopped"
              /\ g_ui' = g_ui
              /\ g_yielded' = g_yielded]_vars

\* next_event() returned two different events and then an error: the UI
\* holds the two, in that order, after SessionConfigured
C31_Witness ==
    /\ g_pc = "stopped"
    /\ Len(g_yielded) = 2
    /\ g_yielded[1] # g_yielded[2]
    /\ g_ui = <<SessionConfiguredEv>> \o g_yielded

\* the agent holds its conversation
Initialised == g_pc \in {"running", "stopped"}

\* C32: when the agent's conversation initialises successfully, every Op
\* sent on the returned sender, including Ops sent before initialisation
\* finished, is submitted to the conversation exactly once and in send
\* order; a submit that returns an error is only logged and does not stop
\* the submission of later Ops, and the Op loop keeps running after the
\* event-forwarding loop has ended.
C32_OpsSubmittedOnceInOrder ==
    /\ [](g_pc # "failed" => g_sent = g_submitted \o g_op_rx)
    /\ [][g_forwarder => g_forwarder']_vars
    /\ (Initialised ~> (Initialised /\ g_submitted = g_sent))
    /\ (g_pc = "stopped" ~> (g_pc = "stopped" /\ g_submitted = g_sent))

\* the event loop has ended, the first submit failed and was logged, and
\* both Ops the UI sent were submitted in send order
C32_Witness ==
    /\ g_pc = "stopped"
    /\ g_sent = <<"interrupt", "user_turn">>
    /\ g_submitted = g_sent
    /\ g_logged = Len(g_sent)

\* C33: if new_conversation fails inside spawn_agent, no CodexEvent at all
\* (neither SessionConfigured nor an Error) is ever sent to the UI, and no
\* Op sent on the returned sender, before or after the failure, is ever
\* submitted to any conversation.
C33_InitFailureIsSilent ==
    g_pc = "failed" =>
        /\ g_ui = <<>>
        /\ g_submitted = <<>>
        /\ g_op_rx = <<>>
        /\ ~g_forwarder

\* new_conversation has failed and the UI has sent its Ops
C33_Witness ==
    /\ g_fn = "spawn_agent"
    /\ g_pc = "failed"
    /\ Len(g_sent) = MaxOps

\* ------------------------------------------------------------------------
\* The App's commit animation (checked under SpecAnim and SpecAnimLive)
\* ------------------------------------------------------------------------
AliveThreads == {t \in AnimThreads : Alive(t)}

\* C34: for any sequence of StartCommitAnimation and StopCommitAnimation
\* events and any scheduling of the animation threads, at most one
\* commit-animation thread is alive (looping and sending CommitTick) at a
\* time; a StartCommitAnimation received while one is running spawns no
\* second thread.
C34_AtMostOneAnimationThread ==
    Cardinality(AliveThreads) <= 1

\* two threads are both past a successful load of the flag, which is set:
\* both go on sending CommitTick
C34_Witness ==
    /\ k_running
    /\ Cardinality({t \in AnimThreads : k_thread[t] = "sleep"}) = 2

\* C35: after StopCommitAnimation has been handled and no later
\* StartCommitAnimation occurs, the animation thread eventually exits,
\* sending at most one further CommitTick after the stop; no CommitTick is
\* produced after it exits.  Stated of every animation thread.
C35_ThreadExitsAfterStop ==
    /\ [](k_stopped => \A t \in AnimThreads : k_after[t] <= 1)
    /\ [][\A t \in AnimThreads :
              k_thread[t] = "exited" =>
                  k_thread'[t] = "exited" /\ k_after'[t] <= k_after[t]]_vars
    /\ (k_stopped ~> (~k_stopped \/ AliveThreads = {}))

\* the stop was handled while the thread slept: it sent one more
\* CommitTick and left its loop
C35_Witness ==
    /\ k_stopped
    /\ \E t \in AnimThreads : k_thread[t] = "exited" /\ k_after[t] = 1

\* ------------------------------------------------------------------------
\* The App's history lines (checked under SpecHistory)
\* ------------------------------------------------------------------------
\* the step handles an InsertHistoryLines or an InsertHistoryCell
InsertHandled ==
    /\ h_count' # h_count
    /\ h_last'.kind \in {"InsertHistoryLines", "InsertHistoryCell"}

\* C36: every line delivered by InsertHistoryLines or InsertHistoryCell is
\* appended to transcript_lines in arrival order whatever the overlay
\* state; display lines are written to the terminal immediately iff no
\* overlay is active and are otherwise appended to deferred_history_lines
\* in arrival order (never both, never dropped), with
\* deferred_history_lines unchanged when no overlay is active.
C36_HistoryLinesRouted ==
    /\ [](h_transcript = h_arrived.transcript)
    /\ [][InsertHandled =>
              /\ h_transcript' = h_transcript \o h_last'.transcript
              /\ IF h_overlay = None
                 THEN /\ h_terminal' = h_terminal \o h_last'.display
                      /\ h_deferred' = h_deferred
                 ELSE /\ h_deferred' = h_deferred \o h_last'.display
                      /\ h_terminal' = h_terminal]_vars

\* under the static overlay a cell's display line was deferred behind an
\* earlier one while its transcript line went to transcript_lines
C36_Witness ==
    /\ h_overlay # None
    /\ h_overlay[1].kind = "Static"
    /\ h_last.kind = "InsertHistoryCell"
    /\ h_last.display # <<>>
    /\ h_last.transcript # h_last.display
    /\ Len(h_deferred) = 2
    /\ h_deferred[1] # h_deferred[2]
    /\ h_terminal = <<>>

\* ------------------------------------------------------------------------
\* The policy layer (checked under SpecPolicy)
\* ------------------------------------------------------------------------
ApprovalRequests == {"exec_approval_request", "apply_patch_approval_request"}
Asked == \E i \in 1..Len(d_events) : d_events[i] \in ApprovalRequests

\* C17: under approval_policy = Never the user is never asked: for every
\* shell command and every patch (one with a target outside the writable
\* roots included) no ExecApprovalRequest and no ApplyPatchApprovalRequest
\* is emitted, and a call that has ended has handed its outcome, failure
\* included, to the model as the tool result.
C17_NeverNeverAsks ==
    d_ctx.approval_policy = "never" =>
        /\ ~Asked
        /\ d_pc \notin {"waiting", "escalated", "cancelled"}
        /\ d_pc = "done" => d_result \in {"success", "failure"}
====
